---- MODULE Spec2Model ----
(***************************************************************************)
(* jtool: bulk reassignment of Jira filters / issues and Confluence space  *)
(* permissions from old users to new users.                                *)
(*                                                                         *)
(* The module holds several specifications over one set of variables:      *)
(*   GateSpec   the rate-limit gate of BaseClient (client/base.py)         *)
(*   BatchSpec  JiraClient.bulk_update_user_field (client/jira.py)         *)
(*   RemapSpec  the remap filters / issues / spaces commands               *)
(*              (cli/remap.py) running over the gate                       *)
(*   FiltersSpec, IssuesSpec, SpacesSpec  one of the three commands        *)
(*   TrackerSpec  remap issues of one pair, with fairness                  *)
(*   ResolveSpec, LookupSpec  the remap callback and one resolve_user      *)
(*   PagerSpec  one paginated traversal                                    *)
(*   ConfSpec   the configured concurrency up to the client's semaphore    *)
(*   StaggerSpec  callers of the gate against a clock                      *)
(* Each specification freezes the variables of the other parts.            *)
(***************************************************************************)
EXTENDS Integers, Sequences, FiniteSets, TLC

VARIABLES
    capacity,       \* BaseClient.__init__: the concurrency given to Semaphore()
    sem,            \* BaseClient._semaphore._value: permits available
    opPc,           \* GateSpec: position of each logical operation in _rate_limit
    bulkState,      \* per field: bulk_update_user_field "idle" | "running" | "returned" | "raised"
    bulkKeys,       \* per field: the issue_keys argument
    chunkKeys,      \* per field: the chunk argument of send_batch(chunk, idx), by idx
    chunkPc,        \* per field: position of send_batch(chunk, idx), by idx
    chunkResp,      \* per field: what send_batch(chunk, idx) returned or raised, by idx
    bulkResult,     \* per field: the list bulk_update_user_field returned
    command,        \* the remap subcommand run: "filters" | "issues" | "spaces"
    dry_run,        \* its --dry-run option
    user_maps,      \* conf.user_maps: the (old, new) pairs, by accountId
    mainPc,         \* position of the command's main() coroutine
    disc,           \* the discovery coroutines main() gathers
    maps,           \* filter_maps / issue_maps / space_maps
    pairIdx,        \* position of the for loop in maps
    total,          \* main(): total
    changed,        \* main(): changed
    kids,           \* the mutation coroutines gathered for the current pair
    calls,          \* the mutating client methods invoked so far (a bag)
    user_changed,   \* remap issues: user_changed
    task_ids,       \* remap issues: task_ids of the current pair
    tasks,          \* remap issues: the Task objects of the current pair
    pending_tasks,  \* remap issues: pending_tasks (positions in tasks)
    polls,          \* remap issues: the track_task coroutines of the current round
    srv,            \* the server's bulk queue: task id -> status, processed
    seen,           \* history: per task, how often a poll saw it terminal, and
                    \* the processed count of the first such poll
    progress,       \* the progress bar of the pair: total, completed
    all_spaces,     \* remap spaces: all_spaces
    permObjs,       \* remap spaces: the SpacePermissionV1 objects the spaces hold
    rows,           \* remap callback: the rows of the mapping CSV
    res,            \* remap callback: the resolve_user_map coroutines, by row
    warned,         \* remap callback: warnings logged, by row
    cbPc,           \* remap callback: position of its main()
    lookup,         \* one call of resolve_user: identifier, answer, position, outcome
    pager,          \* one paginated traversal: the server's pages and the loop's locals
    conf,           \* the configuration: JTOOL_CONCURRENCY, --concurrency, settings.concurrency
    stagger         \* the clock, and callers of _rate_limit with their stagger arguments

gateVars == <<capacity, sem>>

bulkVars == <<bulkState, bulkKeys, chunkKeys, chunkPc, chunkResp, bulkResult>>

mainVars == <<command, dry_run, user_maps, mainPc, disc, maps, pairIdx, total, changed, kids, calls>>

mainRest == <<command, dry_run, user_maps, disc, maps, pairIdx, total, changed, kids, calls>>

issueVars == <<user_changed, task_ids, tasks, pending_tasks, polls, srv, seen, progress>>

spaceVars == <<all_spaces, permObjs>>

remapVars == <<mainVars, issueVars, spaceVars>>

\* the remap callback
resolveVars == <<rows, res, warned, cbPc>>

auxVars == <<resolveVars, lookup, pager, conf, stagger>>

vars == <<capacity, sem, opPc, bulkVars, remapVars, auxVars>>

----------------------------------------------------------------------------
(* Bounds of the model *)

\* Largest gate capacity explored (the program allows 1..20).
MaxConcurrency == 2

\* Number of logical operations contending for the gate in GateSpec.
NumOps == 3

\* Longest issue_keys list given to bulk_update_user_field in BatchSpec.
MaxKeys == 101

\* Most (old, new) pairs in the mapping of a remap command.
MaxPairs == 2

\* Most filters a user owns.
MaxFilters == 2

\* Most chunks the assigned keys of one user make.
MaxChunks == 1

\* Terminal observations of one task that are told apart: none, one, ...,
\* MaxSeen or more.
MaxSeen == 2

\* Most Confluence spaces listed.
MaxSpaces == 2

\* Most permissions an old user holds on one space.
MaxPerms == 1

\* Longest processedAccessibleIssues list a task reports.
MaxProcessed == 1

----------------------------------------------------------------------------
(* The rate-limit gate: BaseClient._rate_limit, client/base.py:151-161 *)

Ops == 1..NumOps

\* await self._semaphore.acquire(): returns only when a permit is available.
CanAcquire_NoWait(v) == TRUE

CanAcquire(v) == v > 0

\* the value of the semaphore after acquire() returned
Acquired(v) == v - 1

\* finally: self._semaphore.release() -- on every way out of the with-body
\* (how: "ok" the body returned, "error" it raised, "cancel" it was cancelled)
RateLimitExit_OnlyOnSuccess(v, how) == IF how = "ok" THEN v + 1 ELSE v

RateLimitExit_Hold(v, how) == v

RateLimitExit(v, how) == v + 1

\* the requests of this client that are in flight (sent, not yet answered)
InFlight == {o \in Ops : opPc[o] = "request"}

\* a client as constructed: Semaphore(concurrency)
ClientInit ==
    /\ capacity \in 1..MaxConcurrency
    /\ sem = capacity

GateInit ==
    /\ ClientInit
    /\ opPc = [o \in Ops |-> "idle"]

\* a client method enters `async with self._rate_limit(...)`: it first sleeps
\* stagger_order * delay seconds, holding nothing
Enter(o) ==
    /\ opPc[o] = "idle"
    /\ opPc' = [opPc EXCEPT ![o] = "sleep"]
    /\ UNCHANGED <<capacity, sem>>

\* the sleep is over: the operation now waits in self._semaphore.acquire()
SleepDone(o) ==
    /\ opPc[o] = "sleep"
    /\ opPc' = [opPc EXCEPT ![o] = "acquire"]
    /\ UNCHANGED <<capacity, sem>>

\* acquire() returns, the with-body runs: the request is sent
Acquire(o) ==
    /\ opPc[o] = "acquire"
    /\ CanAcquire(sem)
    /\ sem' = Acquired(sem)
    /\ opPc' = [opPc EXCEPT ![o] = "request"]
    /\ UNCHANGED capacity

\* the request returns a response; the method may go on to a further request
\* (a next page, the next call of the operation) or be finished
RequestOk(o) ==
    /\ opPc[o] = "request"
    /\ sem' = RateLimitExit(sem, "ok")
    /\ \E next \in {"idle", "done"} : opPc' = [opPc EXCEPT ![o] = next]
    /\ UNCHANGED capacity

\* the request raises (raise_for_status, a transport error)
RequestError(o) ==
    /\ opPc[o] = "request"
    /\ sem' = RateLimitExit(sem, "error")
    /\ opPc' = [opPc EXCEPT ![o] = "failed"]
    /\ UNCHANGED capacity

\* the operation's task is cancelled (asyncio.run cancels what is left when
\* main() raised): CancelledError is thrown at the await it is suspended in
Cancel(o) ==
    /\ opPc[o] \in {"sleep", "acquire", "request"}
    /\ sem' = IF opPc[o] = "request" THEN RateLimitExit(sem, "cancel") ELSE sem
    /\ opPc' = [opPc EXCEPT ![o] = "cancelled"]
    /\ UNCHANGED capacity

GateNext ==
    \/ \E o \in Ops : Enter(o) /\ UNCHANGED <<bulkVars, remapVars, auxVars>>
    \/ \E o \in Ops : SleepDone(o) /\ UNCHANGED <<bulkVars, remapVars, auxVars>>
    \/ \E o \in Ops : Acquire(o) /\ UNCHANGED <<bulkVars, remapVars, auxVars>>
    \/ \E o \in Ops : RequestOk(o) /\ UNCHANGED <<bulkVars, remapVars, auxVars>>
    \/ \E o \in Ops : RequestError(o) /\ UNCHANGED <<bulkVars, remapVars, auxVars>>
    \/ \E o \in Ops : Cancel(o) /\ UNCHANGED <<bulkVars, remapVars, auxVars>>

----------------------------------------------------------------------------
(* JiraClient.bulk_update_user_field, client/jira.py:160-209 *)

\* batch_size = 50
BatchSize == 50

\* the two user fields remap issues updates, one bulk call each
Fields == {"assignee", "reporter"}

\* the issue keys of a list of n keys; keys are told apart by their position
IssueKeys(n) == [i \in 1..n |-> i]

\* Python's s[i:j] for 0 <= i <= j: the items at 0-based positions i..j-1,
\* cut at the end of s
PySlice_OffByOne(s, i, j) == SubSeq(s, i + 1, IF j - 1 < Len(s) THEN j - 1 ELSE Len(s))

PySlice(s, i, j) == SubSeq(s, i + 1, IF j < Len(s) THEN j ELSE Len(s))

\* list(range(0, n, step)), in increasing order
PyRange(n, step) ==
    [k \in 1..Cardinality({i \in 0..(n - 1) : i % step = 0}) |-> (k - 1) * step]

\* enumerate(issue_keys[i : i + batch_size] for i in range(0, len(issue_keys), batch_size)):
\* the chunk of idx (0-based) is Chunks(keys)[idx + 1]
Chunks(keys) ==
    LET starts == PyRange(Len(keys), BatchSize)
    IN  [c \in 1..Len(starts) |-> PySlice(keys, starts[c], starts[c] + BatchSize)]

\* the task id the server gives the task of an accepted chunk: unique per
\* (field, chunk); the server's ids are opaque strings
TaskIdTable ==
    [assignee |-> <<"A0", "A1", "A2", "A3", "A4", "A5">>,
     reporter |-> <<"R0", "R1", "R2", "R3", "R4", "R5">>]

ServerTaskId(f, c) == TaskIdTable[f][c]

\* what awaiting send_batch gives under gather(..., return_exceptions=True):
\*   "task"      a JSON object carrying taskId
\*   "empty"     a 2xx response without taskId (request() gives {} for a
\*               body that is not JSON)
\*   "list"      a JSON array
\*   "apierror"  an APIError (APIHTTPError, JiraAPIError) of a non-2xx status
\*   "exception" any other Exception (a transport error)
\*   "none"      not answered yet
NoResp == [kind |-> "none", taskId |-> ""]

\* the answers of the bulk endpoint: it accepts the chunk (201, with or without a
\* usable body) or the request fails
BulkAnswers(f, c) ==
    { [kind |-> "task", taskId |-> ServerTaskId(f, c)],
      [kind |-> "empty", taskId |-> ""],
      [kind |-> "apierror", taskId |-> ""],
      [kind |-> "exception", taskId |-> ""] }

Accepted(resp) == resp.kind \in {"task", "empty", "list"}

\* jira.py:201-209: the loop over responses building results
RECURSIVE CollectResults_StopAtError(_)
CollectResults_StopAtError(responses) ==
    IF responses = <<>> THEN <<>>
    ELSE LET resp == Head(responses)
         IN  IF resp.kind \in {"apierror", "exception"} THEN <<>>
             ELSE IF resp.kind \in {"task", "empty"}
                  THEN <<resp.taskId>> \o CollectResults_StopAtError(Tail(responses))
                  ELSE CollectResults_StopAtError(Tail(responses))

RECURSIVE CollectResults(_)
CollectResults(responses) ==
    IF responses = <<>> THEN <<>>
    ELSE LET resp == Head(responses)
             rest == CollectResults(Tail(responses))
         IN  CASE resp.kind = "apierror" -> rest        \* logger.error(str(resp))
               [] resp.kind = "exception" -> rest       \* logger.error("Unexpected error")
               [] resp.kind \in {"task", "empty"} ->    \* resp.get("taskId", "")
                      <<resp.taskId>> \o rest
               [] OTHER -> rest                         \* neither branch: dropped

BulkIdle ==
    /\ bulkState = [f \in Fields |-> "idle"]
    /\ bulkKeys = [f \in Fields |-> <<>>]
    /\ chunkKeys = [f \in Fields |-> <<>>]
    /\ chunkPc = [f \in Fields |-> <<>>]
    /\ chunkResp = [f \in Fields |-> <<>>]
    /\ bulkResult = [f \in Fields |-> <<>>]

\* the call: the chunks are cut and one send_batch coroutine per chunk is
\* handed to gather; each starts in the stagger sleep of _rate_limit
BulkStart(f, keys) ==
    /\ bulkState[f] = "idle"
    /\ bulkState' = [bulkState EXCEPT ![f] = "running"]
    /\ bulkKeys' = [bulkKeys EXCEPT ![f] = keys]
    /\ chunkKeys' = [chunkKeys EXCEPT ![f] = Chunks(keys)]
    /\ chunkPc' = [chunkPc EXCEPT ![f] = [c \in 1..Len(Chunks(keys)) |-> "sleep"]]
    /\ chunkResp' = [chunkResp EXCEPT ![f] = [c \in 1..Len(Chunks(keys)) |-> NoResp]]
    /\ UNCHANGED bulkResult

ChunkIds(f) == DOMAIN chunkPc[f]

\* send_batch: asyncio.sleep(batch_index * 0.5) is over
ChunkSleepDone(f, c) ==
    /\ bulkState[f] = "running"
    /\ chunkPc[f][c] = "sleep"
    /\ chunkPc' = [chunkPc EXCEPT ![f][c] = "acquire"]
    /\ UNCHANGED <<capacity, sem, bulkState, bulkKeys, chunkKeys, chunkResp, bulkResult>>

\* send_batch: the permit is acquired and the POST of the chunk is sent
ChunkSend(f, c) ==
    /\ bulkState[f] = "running"
    /\ chunkPc[f][c] = "acquire"
    /\ CanAcquire(sem)
    /\ sem' = Acquired(sem)
    /\ chunkPc' = [chunkPc EXCEPT ![f][c] = "request"]
    /\ UNCHANGED <<capacity, bulkState, bulkKeys, chunkKeys, chunkResp, bulkResult>>

\* send_batch: the POST is answered; the permit is released
ChunkAnswer(f, c) ==
    /\ bulkState[f] = "running"
    /\ chunkPc[f][c] = "request"
    /\ \E resp \in BulkAnswers(f, c) :
        /\ chunkResp' = [chunkResp EXCEPT ![f][c] = resp]
        /\ sem' = RateLimitExit(sem, IF Accepted(resp) THEN "ok" ELSE "error")
    /\ chunkPc' = [chunkPc EXCEPT ![f][c] = "done"]
    /\ UNCHANGED <<capacity, bulkState, bulkKeys, chunkKeys, bulkResult>>

\* gather(..., return_exceptions=True) is done when every send_batch is; the
\* results are collected and returned
BulkReturn(f) ==
    /\ bulkState[f] = "running"
    /\ \A c \in ChunkIds(f) : chunkPc[f][c] = "done"
    /\ bulkResult' = [bulkResult EXCEPT ![f] = CollectResults(chunkResp[f])]
    /\ bulkState' = [bulkState EXCEPT ![f] = "returned"]
    /\ UNCHANGED <<capacity, sem, bulkKeys, chunkKeys, chunkPc, chunkResp>>

\* BatchSpec: one call of bulk_update_user_field on a fresh client
BatchCall ==
    /\ \A f \in Fields : bulkState[f] = "idle"
    /\ \E f \in Fields, n \in 0..MaxKeys : BulkStart(f, IssueKeys(n))
    /\ UNCHANGED <<capacity, sem>>

BatchInit == ClientInit /\ BulkIdle /\ opPc = [o \in Ops |-> "idle"]

BatchNext ==
    \/ BatchCall /\ UNCHANGED <<opPc, remapVars, auxVars>>
    \/ \E f \in Fields : \E c \in ChunkIds(f) :
            ChunkSleepDone(f, c) /\ UNCHANGED <<opPc, remapVars, auxVars>>
    \/ \E f \in Fields : \E c \in ChunkIds(f) :
            ChunkSend(f, c) /\ UNCHANGED <<opPc, remapVars, auxVars>>
    \/ \E f \in Fields : \E c \in ChunkIds(f) :
            ChunkAnswer(f, c) /\ UNCHANGED <<opPc, remapVars, auxVars>>
    \/ \E f \in Fields : BulkReturn(f) /\ UNCHANGED <<opPc, remapVars, auxVars>>

----------------------------------------------------------------------------
(* The remap commands, cli/remap.py: what the three share *)

\* accountIds of the users of the mapping: pair i maps OldIds[i] to NewIds[i]
OldIds == <<"old1", "old2", "old3", "old4">>

NewIds == <<"new1", "new2", "new3", "new4">>

UserMaps(np) == [i \in 1..np |-> [old |-> OldIds[i], new |-> NewIds[i]]]

\* a coroutine handed to asyncio.gather that is still running
Running(k) == k.pc \in {"wait", "request", "await"}

\* it ended by raising: gather (without return_exceptions) raises into main()
Raised(k) == k.pc = "raised"

AllDone_AnyDone(ks) == ks = <<>> \/ \E i \in DOMAIN ks : ks[i].pc = "done"

AllDone(ks) == \A i \in DOMAIN ks : ks[i].pc = "done"

\* the sum of f[i] over the indices of a sequence
RECURSIVE SumSeq(_)
SumSeq(f) == IF f = <<>> THEN 0 ELSE Head(f) + SumSeq(Tail(f))

\* [x for x in s if Keep(x)]
RECURSIVE SelectIdx(_, _)
SelectIdx(n, keep) ==
    IF n = 0 THEN <<>>
    ELSE IF n \in keep THEN Append(SelectIdx(n - 1, keep), n) ELSE SelectIdx(n - 1, keep)

\* asyncio.run() cancels every task still pending when main() has raised:
\* CancelledError is thrown into each at its await
CancelAll(ks) ==
    [i \in DOMAIN ks |-> IF Running(ks[i]) THEN [ks[i] EXCEPT !.pc = "cancelled"] ELSE ks[i]]

\* the permits the cancelled coroutines give back in their finally
RECURSIVE ReleaseAll(_, _)
ReleaseAll(v, n) == IF n = 0 THEN v ELSE ReleaseAll(RateLimitExit(v, "cancel"), n - 1)

Holding(ks) == Cardinality({i \in DOMAIN ks : ks[i].pc = "request"})

\* one more invocation of a mutating client method
Logged(bag, call) ==
    IF call \in DOMAIN bag THEN [bag EXCEPT ![call] = @ + 1]
    ELSE [c \in DOMAIN bag \cup {call} |-> IF c = call THEN 1 ELSE bag[c]]

RECURSIVE LoggedAll(_, _)
LoggedAll(bag, callSeq) ==
    IF callSeq = <<>> THEN bag ELSE LoggedAll(Logged(bag, Head(callSeq)), Tail(callSeq))

NoCalls == [c \in {} |-> 0]

MainIdle ==
    /\ command = "none"
    /\ dry_run = FALSE
    /\ user_maps = <<>>
    /\ mainPc = "idle"
    /\ disc = <<>>
    /\ maps = <<>>
    /\ pairIdx = 0
    /\ total = 0
    /\ changed = 0
    /\ kids = <<>>
    /\ calls = NoCalls

\* a remap subcommand is entered with the mapping the callback resolved
MainInit ==
    /\ command \in {"filters", "issues", "spaces"}
    /\ dry_run \in BOOLEAN
    /\ \E np \in 0..MaxPairs : user_maps = UserMaps(np)
    /\ mainPc = "start"
    /\ disc = <<>>
    /\ maps = <<>>
    /\ pairIdx = 0
    /\ total = 0
    /\ changed = 0
    /\ kids = <<>>
    /\ calls = NoCalls

\* a discovery coroutine has its permit: the request (first or next page) is sent
DiscSend(i) ==
    /\ mainPc \in {"admin", "list", "discover"}
    /\ disc[i].pc = "wait"
    /\ CanAcquire(sem)
    /\ sem' = Acquired(sem)
    /\ disc' = [disc EXCEPT ![i].pc = "request"]

\* the page is answered and names a next page: the method loops
DiscNextPage(i) ==
    /\ mainPc \in {"list", "discover"}
    /\ disc[i].pc = "request"
    /\ sem' = RateLimitExit(sem, "ok")
    /\ disc' = [disc EXCEPT ![i].pc = "wait"]

\* the last page is answered: the method returns everything collected
DiscReturn(i, result) ==
    /\ mainPc = "discover"
    /\ disc[i].pc = "request"
    /\ sem' = RateLimitExit(sem, "ok")
    /\ disc' = [disc EXCEPT ![i].pc = "done", ![i].result = result]

\* the request fails: the method raises
DiscRaise(i) ==
    /\ mainPc \in {"admin", "list", "discover"}
    /\ disc[i].pc = "request"
    /\ sem' = RateLimitExit(sem, "error")
    /\ disc' = [disc EXCEPT ![i].pc = "raised"]

\* remap.py:178, 303, 478: `if dry_run or not user_total: continue`
SkipPair_IgnoreDryRun(dry, user_total) == user_total = 0

SkipPair(dry, user_total) == dry \/ user_total = 0

\* console.print("Done. Total ... matched: {total}", "reassigned: {changed}")
Summary ==
    /\ mainPc = "summary"
    /\ mainPc' = "done"
    /\ UNCHANGED <<sem, command, dry_run, user_maps, disc, maps, pairIdx, total, changed, kids, calls>>

----------------------------------------------------------------------------
(* remap filters, cli/remap.py:109-200 *)

\* the k-th filter owned by the old user of pair i: a filter has one owner
FilterId(i, k) == (i - 1) * MaxFilters + k

FiltersOf(i, n) == [k \in 1..n |-> FilterId(i, k)]

\* filters_results = await asyncio.gather(*(find_filters(user) for user, _ in user_maps))
FiltersDiscover ==
    /\ command = "filters"
    /\ mainPc = "start"
    /\ disc' = [i \in 1..Len(user_maps) |-> [pc |-> "wait", result |-> <<>>]]
    /\ mainPc' = "discover"
    /\ UNCHANGED <<sem, command, dry_run, user_maps, maps, pairIdx, total, changed, kids, calls>>

\* get_filters_for_user(user) returns the ids of the filters the user owns
FiltersFound(i) ==
    /\ command = "filters"
    /\ \E n \in 0..MaxFilters : DiscReturn(i, FiltersOf(i, n))

\* filter_maps: the pairs with a non-empty result, in user_maps order
FilterMaps(ums, results) ==
    LET keep == {i \in 1..Len(ums) : results[i].result # <<>>}
        idx == SelectIdx(Len(ums), keep)
    IN  [j \in 1..Len(idx) |->
            [old |-> ums[idx[j]].old, new |-> ums[idx[j]].new,
             filters |-> results[idx[j]].result]]

FiltersGathered ==
    /\ command = "filters"
    /\ mainPc = "discover"
    /\ AllDone(disc)
    /\ maps' = FilterMaps(user_maps, disc)
    /\ pairIdx' = 1
    /\ mainPc' = "loop"
    /\ UNCHANGED <<sem, command, dry_run, user_maps, disc, total, changed, kids, calls>>

\* reassign_filter(fid, new) for fid in filters
FilterKids(m) ==
    [k \in 1..Len(m.filters) |-> [pc |-> "wait", fid |-> m.filters[k], acct |-> m.new]]

SetFilterOwnerCalls_ToOld(m) ==
    [k \in 1..Len(m.filters) |->
        [op |-> "set_filter_owner", space |-> 0, id |-> m.filters[k], acct |-> m.old]]

\* client.set_filter_owner(filter_id, new.accountId) for each filter of the pair
SetFilterOwnerCalls(m) ==
    [k \in 1..Len(m.filters) |->
        [op |-> "set_filter_owner", space |-> 0, id |-> m.filters[k], acct |-> m.new]]

\* one turn of `for old, new, filters in filter_maps:` up to its first await
FiltersLoop ==
    /\ command = "filters"
    /\ mainPc = "loop"
    /\ IF pairIdx > Len(maps)
       THEN /\ mainPc' = "summary"
            /\ UNCHANGED <<pairIdx, total, kids, calls>>
       ELSE LET m == maps[pairIdx]
                user_total == Len(m.filters)
            IN  /\ total' = total + user_total
                /\ IF SkipPair(dry_run, user_total)
                   THEN /\ pairIdx' = pairIdx + 1
                        /\ UNCHANGED <<mainPc, kids, calls>>
                   ELSE /\ kids' = FilterKids(m)
                        /\ calls' = LoggedAll(calls, SetFilterOwnerCalls(m))
                        /\ mainPc' = "mutate"
                        /\ UNCHANGED pairIdx
    /\ UNCHANGED <<sem, command, dry_run, user_maps, disc, maps, changed>>

\* set_filter_owner: the permit is acquired and the PUT is sent
FilterSend(k) ==
    /\ command = "filters"
    /\ mainPc = "mutate"
    /\ kids[k].pc = "wait"
    /\ CanAcquire(sem)
    /\ sem' = Acquired(sem)
    /\ kids' = [kids EXCEPT ![k].pc = "request"]
    /\ UNCHANGED <<command, dry_run, user_maps, mainPc, disc, maps, pairIdx, total, changed, calls>>

\* the PUT succeeded: changed += 1
FilterChanged(k) ==
    /\ command = "filters"
    /\ mainPc = "mutate"
    /\ kids[k].pc = "request"
    /\ sem' = RateLimitExit(sem, "ok")
    /\ kids' = [kids EXCEPT ![k].pc = "done"]
    /\ changed' = changed + 1
    /\ UNCHANGED <<command, dry_run, user_maps, mainPc, disc, maps, pairIdx, total, calls>>

\* the PUT failed: set_filter_owner raises out of reassign_filter
FilterFailed(k) ==
    /\ command = "filters"
    /\ mainPc = "mutate"
    /\ kids[k].pc = "request"
    /\ sem' = RateLimitExit(sem, "error")
    /\ kids' = [kids EXCEPT ![k].pc = "raised"]
    /\ UNCHANGED <<command, dry_run, user_maps, mainPc, disc, maps, pairIdx, total, changed, calls>>

\* the gather of the pair is done: on to the next pair
FiltersPairDone ==
    /\ command = "filters"
    /\ mainPc = "mutate"
    /\ AllDone(kids)
    /\ kids' = <<>>
    /\ pairIdx' = pairIdx + 1
    /\ mainPc' = "loop"
    /\ UNCHANGED <<sem, command, dry_run, user_maps, disc, maps, total, changed, calls>>

----------------------------------------------------------------------------
(* remap issues, cli/remap.py:203-352 *)

\* jira.py:10-17: TaskStatus
TaskStatuses ==
    {"ENQUEUED", "RUNNING", "COMPLETE", "FAILED", "CANCEL_REQUESTED", "CANCELLED", "DEAD"}

\* jira.py:27-35: Task.is_finished
IsFinished_NotCancelRequested(status) ==
    status \in {"COMPLETE", "FAILED", "CANCELLED", "DEAD"}

IsFinished_OnlyComplete(status) == status = "COMPLETE"

IsFinished(status) ==
    status \in {"COMPLETE", "FAILED", "CANCEL_REQUESTED", "CANCELLED", "DEAD"}

\* the lengths of the key lists a search may return: none, or enough keys
\* for 1..MaxChunks chunks (assignee); none or one (reporter)
FoundCounts(field) ==
    IF field = "assignee"
    THEN {0} \cup {(c - 1) * BatchSize + 1 : c \in 1..MaxChunks}
    ELSE {0, 1}

\* for user, _ in user_maps for field in ("assignee", "reporter")
SearchField(d) == IF d % 2 = 1 THEN "assignee" ELSE "reporter"

\* the user of the d-th search: the old user of pair (d + 1) / 2
SearchUser(d) == (d + 1) \div 2

\* the keys the server finds for a JQL search `field = accountId`: n issues,
\* each known by the user and the field it was found for
SearchKeys(acct, field, n) == [i \in 1..n |-> [owner |-> acct, field |-> field, n |-> i]]

PyStride2_Swapped(s, start) ==
    [j \in 1..((Len(s) - (1 - start) + 1) \div 2) |-> s[2 * (j - 1) + (1 - start) + 1]]

\* Python's s[start::2] for start in {0, 1}
PyStride2(s, start) ==
    [j \in 1..((Len(s) - start + 1) \div 2) |-> s[2 * (j - 1) + start + 1]]

\* the bulk queue of the server: a task is ENQUEUED, then RUNNING, then in one
\* of the other statuses; a cancel requested becomes a cancel done. The list
\* processedAccessibleIssues (here its length) only grows.
SrvNew == [status |-> "ENQUEUED", processed |-> 0]

SrvReach(s) ==
    CASE s.status = "ENQUEUED" ->
            {SrvNew}
            \cup [status : TaskStatuses \ {"ENQUEUED"}, processed : 0..MaxProcessed]
      [] s.status = "RUNNING" ->
            [status : TaskStatuses \ {"ENQUEUED"}, processed : s.processed..MaxProcessed]
      [] s.status = "CANCEL_REQUESTED" ->
            {s} \cup [status : {"CANCELLED"}, processed : s.processed..MaxProcessed]
      [] OTHER -> {s}

\* the progressPercent the server reports with a status
SrvProgress(status) ==
    CASE status = "ENQUEUED" -> 0
      [] status = "COMPLETE" -> 100
      [] OTHER -> 50

\* what the server knows of a task id: nothing of the empty id
SrvKnows(tid) == tid # ""

SrvTask(tid) == IF tid \in DOMAIN srv THEN srv[tid] ELSE SrvNew

\* Task.model_validate(resp)
TaskOf(tid, s) ==
    [taskId |-> tid, status |-> s.status, progressPercent |-> SrvProgress(s.status),
     processed |-> s.processed]

\* the result slot of a poll that has not returned
NoTask == [taskId |-> "", status |-> "none", progressPercent |-> 0, processed |-> 0]

NotSeen == [n |-> 0, first |-> 0]

NoProgress == [total |-> 0, completed |-> 0]

IssuesIdle ==
    /\ user_changed = 0
    /\ task_ids = <<>>
    /\ tasks = <<>>
    /\ pending_tasks = <<>>
    /\ polls = <<>>
    /\ srv = [t \in {} |-> SrvNew]
    /\ seen = <<>>
    /\ progress = NoProgress

\* issues_results = await asyncio.gather(*(find_issues(field, user) ...))
IssuesDiscover ==
    /\ command = "issues"
    /\ mainPc = "start"
    /\ disc' = [d \in 1..(2 * Len(user_maps)) |-> [pc |-> "wait", result |-> <<>>]]
    /\ mainPc' = "discover"
    /\ UNCHANGED <<sem, command, dry_run, user_maps, maps, pairIdx, total, changed, kids, calls>>

\* search_issue_keys_for_user_field returns the keys of all pages
IssuesFound(d) ==
    /\ command = "issues"
    /\ \E n \in FoundCounts(SearchField(d)) :
            DiscReturn(d, SearchKeys(user_maps[SearchUser(d)].old, SearchField(d), n))

\* issue_maps: the pairs with an assigned or a reported key, in user_maps order
IssueMaps(ums, results) ==
    LET assigned == PyStride2(results, 0)
        reported == PyStride2(results, 1)
        keep == {i \in 1..Len(ums) : assigned[i].result # <<>> \/ reported[i].result # <<>>}
        idx == SelectIdx(Len(ums), keep)
    IN  [j \in 1..Len(idx) |->
            [old |-> ums[idx[j]].old, new |-> ums[idx[j]].new,
             assigned |-> assigned[idx[j]].result,
             reported |-> reported[idx[j]].result]]

IssuesGathered ==
    /\ command = "issues"
    /\ mainPc = "discover"
    /\ AllDone(disc)
    /\ maps' = IssueMaps(user_maps, disc)
    /\ pairIdx' = 1
    /\ mainPc' = "loop"
    /\ UNCHANGED <<sem, command, dry_run, user_maps, disc, total, changed, kids, calls>>

\* remap.py:310-321: the two bulk_update_user_field calls of a pair
BulkCalls(m) ==
    << [op |-> "bulk_update_user_field", field |-> "assignee", keys |-> m.assigned,
        acct |-> m.new],
       [op |-> "bulk_update_user_field", field |-> "reporter", keys |-> m.reported,
        acct |-> m.new] >>

\* one turn of `for old, new, assigned_keys, reported_keys in issue_maps:` up to
\* its first await: the gather of the two bulk_update_user_field calls
IssuesLoop ==
    /\ command = "issues"
    /\ mainPc = "loop"
    /\ IF pairIdx > Len(maps)
       THEN /\ mainPc' = "summary"
            /\ UNCHANGED <<pairIdx, total, calls, bulkVars>>
       ELSE LET m == maps[pairIdx]
                user_total == Len(m.assigned) + Len(m.reported)
            IN  /\ total' = total + user_total
                /\ IF SkipPair(dry_run, user_total)
                   THEN /\ pairIdx' = pairIdx + 1
                        /\ UNCHANGED <<mainPc, calls, bulkVars>>
                   ELSE LET keys == [assignee |-> m.assigned, reporter |-> m.reported]
                        IN  /\ bulkState' = [f \in Fields |-> "running"]
                            /\ bulkKeys' = keys
                            /\ chunkKeys' = [f \in Fields |-> Chunks(keys[f])]
                            /\ chunkPc' = [f \in Fields |->
                                    [c \in 1..Len(Chunks(keys[f])) |-> "sleep"]]
                            /\ chunkResp' = [f \in Fields |->
                                    [c \in 1..Len(Chunks(keys[f])) |-> NoResp]]
                            /\ bulkResult' = [f \in Fields |-> <<>>]
                        /\ calls' = LoggedAll(calls, BulkCalls(m))
                        /\ mainPc' = "bulk"
                        /\ UNCHANGED pairIdx
    /\ UNCHANGED <<sem, command, dry_run, user_maps, disc, maps, changed, kids>>

\* list(chain.from_iterable(bulk_results))
ChainResults(results) == results["assignee"] \o results["reporter"]

ResetUserChanged_Keep(v) == v

\* remap.py:324: user_changed = 0
ResetUserChanged(v) == 0

\* both bulk calls returned (they never raise): remap.py:322-332, up to the
\* gather of the initial polls track_task(tid, batch_index=idx)
IssuesBulkDone ==
    /\ command = "issues"
    /\ mainPc = "bulk"
    /\ \A f \in Fields : bulkState[f] = "returned"
    /\ task_ids' = ChainResults(bulkResult)
    /\ progress' = [total |-> Len(task_ids') * 100, completed |-> 0]
    /\ user_changed' = ResetUserChanged(user_changed)
    /\ pending_tasks' = <<>>
    /\ polls' = [p \in 1..Len(task_ids') |-> [pc |-> "wait", task |-> p]]
    /\ tasks' = [p \in 1..Len(task_ids') |-> NoTask]
    /\ seen' = [p \in 1..Len(task_ids') |-> NotSeen]
    /\ mainPc' = "poll0"
    /\ bulkState' = [f \in Fields |-> "idle"]
    /\ bulkKeys' = [f \in Fields |-> <<>>]
    /\ chunkKeys' = [f \in Fields |-> <<>>]
    /\ chunkPc' = [f \in Fields |-> <<>>]
    /\ chunkResp' = [f \in Fields |-> <<>>]
    /\ bulkResult' = [f \in Fields |-> <<>>]
    /\ UNCHANGED <<sem, srv>>
    /\ UNCHANGED <<command, dry_run, user_maps, disc, maps, pairIdx, total, changed, kids, calls>>

\* get_task_status: the permit is acquired and the GET of the task is sent
PollSend(p) ==
    /\ mainPc \in {"poll0", "pollN"}
    /\ polls[p].pc = "wait"
    /\ CanAcquire(sem)
    /\ sem' = Acquired(sem)
    /\ polls' = [polls EXCEPT ![p].pc = "request"]
    /\ UNCHANGED <<user_changed, task_ids, tasks, pending_tasks, srv, seen, progress>>

\* `task in pending_tasks`: list membership is by ==, and pydantic models are
\* equal when their field values are
PyIn(t, pending, ts) == \E j \in 1..Len(pending) : ts[pending[j]] = ts[t]

\* pending_tasks.remove(task): the first element equal to task is removed
PyRemove(t, pending, ts) ==
    LET j == CHOOSE j \in 1..Len(pending) :
                /\ ts[pending[j]] = ts[t]
                /\ \A i \in 1..(j - 1) : ts[pending[i]] # ts[t]
    IN  SubSeq(pending, 1, j - 1) \o SubSeq(pending, j + 1, Len(pending))

MarkFinished_Keep(task) == task

\* remap.py:244: task.progressPercent = 100
MarkFinished(task) == [task EXCEPT !.progressPercent = 100]

\* pending_tasks = tasks.copy(): every task, the finished ones too
PendingAfterInitial(ts) == [t \in 1..Len(ts) |-> t]

\* the poll is answered: get_task_status builds the task (initial round) or
\* updates it in place (later rounds), and track_task goes on without an await
PollAnswer(p) ==
    LET t == polls[p].task
        tid == task_ids[t]
    IN  /\ mainPc \in {"poll0", "pollN"}
        /\ polls[p].pc = "request"
        /\ SrvKnows(tid)
        /\ \E s \in SrvReach(SrvTask(tid)) :
            LET got == TaskOf(tid, s)
                fin == IsFinished(got.status)
                task == IF fin THEN MarkFinished(got) ELSE got
                ts == [tasks EXCEPT ![t] = task]
            IN  /\ srv' = [x \in DOMAIN srv \cup {tid} |-> IF x = tid THEN s ELSE srv[x]]
                /\ tasks' = ts
                /\ user_changed' = IF fin THEN user_changed + got.processed ELSE user_changed
                /\ pending_tasks' =
                        IF fin /\ PyIn(t, pending_tasks, ts)
                        THEN PyRemove(t, pending_tasks, ts)
                        ELSE pending_tasks
                /\ progress' =
                        IF mainPc = "pollN"
                        THEN [progress EXCEPT !.completed =
                                SumSeq([i \in 1..Len(ts) |-> ts[i].progressPercent])]
                        ELSE [progress EXCEPT !.completed = @ + task.progressPercent]
                /\ seen' =
                        IF s.status \in TaskStatuses \ {"ENQUEUED", "RUNNING"}
                        THEN [seen EXCEPT ![t] =
                                [n |-> IF @.n < MaxSeen THEN @.n + 1 ELSE @.n,
                                 first |-> IF @.n = 0 THEN s.processed ELSE @.first]]
                        ELSE seen
        /\ sem' = RateLimitExit(sem, "ok")
        /\ polls' = [polls EXCEPT ![p].pc = "done"]
        /\ UNCHANGED task_ids

\* the GET fails (an error status, a transport error): get_task_status raises
\* out of track_task
PollFail(p) ==
    /\ mainPc \in {"poll0", "pollN"}
    /\ polls[p].pc = "request"
    /\ sem' = RateLimitExit(sem, "error")
    /\ polls' = [polls EXCEPT ![p].pc = "raised"]
    /\ UNCHANGED <<user_changed, task_ids, tasks, pending_tasks, srv, seen, progress>>

\* the gather of the initial polls is done: tasks is its result
InitialPollsDone ==
    /\ mainPc = "poll0"
    /\ AllDone(polls)
    /\ pending_tasks' = PendingAfterInitial(tasks)
    /\ polls' = <<>>
    /\ mainPc' = "while"
    /\ UNCHANGED <<user_changed, task_ids, tasks, srv, seen, progress>>
    /\ UNCHANGED <<sem, mainRest>>

RoundPolls_AllTasks(pending, ts) == [p \in 1..Len(ts) |-> [pc |-> "wait", task |-> p]]

\* remap.py:336-341: track_task(task, tasks, batch_index=idx) for idx, task in
\* enumerate(pending_tasks)
RoundPolls(pending, ts) == [p \in 1..Len(pending) |-> [pc |-> "wait", task |-> pending[p]]]

\* `while pending_tasks:` -- a further round polls what is pending now, or the
\* loop is left
WhileTest ==
    /\ mainPc = "while"
    /\ IF pending_tasks # <<>>
       THEN /\ polls' = RoundPolls(pending_tasks, tasks)
            /\ mainPc' = "pollN"
       ELSE /\ polls' = <<>>
            /\ mainPc' = "tracked"
    /\ UNCHANGED <<user_changed, task_ids, tasks, pending_tasks, srv, seen, progress>>
    /\ UNCHANGED <<sem, mainRest>>

\* the gather of a round is done
RoundDone ==
    /\ mainPc = "pollN"
    /\ AllDone(polls)
    /\ polls' = <<>>
    /\ mainPc' = "while"
    /\ UNCHANGED <<user_changed, task_ids, tasks, pending_tasks, srv, seen, progress>>
    /\ UNCHANGED <<sem, mainRest>>

\* remap.py:343-345, and on to the next pair; the task objects of the pair are
\* dropped
IssuesPairDone ==
    /\ command = "issues"
    /\ mainPc = "tracked"
    /\ progress' = [total |-> 100, completed |-> 100]
    /\ changed' = changed + user_changed
    /\ pairIdx' = pairIdx + 1
    /\ mainPc' = "loop"
    /\ task_ids' = <<>>
    /\ tasks' = <<>>
    /\ seen' = <<>>
    /\ srv' = [t \in {} |-> SrvNew]
    /\ UNCHANGED <<user_changed, pending_tasks, polls>>
    /\ UNCHANGED <<sem, command, dry_run, user_maps, disc, maps, total, kids, calls>>

----------------------------------------------------------------------------
(* remap spaces, cli/remap.py:355-500, over ConfluenceClient *)

\* the server's answers to a mutating request
MutationAnswers == {"ok", "conflict409", "conflict400", "httperror", "exception"}

\* BaseClient.request: raise_for_status() raises httpx.HTTPStatusError on a
\* non-2xx status; a transport error is some other exception
RequestRaises(answer) ==
    CASE answer = "ok" -> "none"
      [] answer \in {"conflict409", "conflict400", "httperror"} -> "HTTPStatusError"
      [] OTHER -> "TransportError"

\* base.py:83-115, the wrapper of handle_api_errors with the client's handler:
\* an HTTPStatusError leaves as an APIError (APIHTTPError or the client's
\* subclass), anything else as it is
HandleApiErrors(exc) == IF exc = "HTTPStatusError" THEN "APIError" ELSE exc

\* how a client method whose body is one guarded request ends:
\* "returned", or the exception that leaves it
MethodOutcome(answer) ==
    IF RequestRaises(answer) = "none" THEN "returned"
    ELSE HandleApiErrors(RequestRaises(answer))

\* confluence.py:160-177: add_space_permission. Its `except APIHTTPError`
\* sits inside the decorated body, where the exception of a non-2xx status is
\* still the HTTPStatusError of request()
AddCatches(exc, answer) ==
    /\ exc = "APIHTTPError"
    /\ answer \in {"conflict409", "conflict400"}

AddSpacePermissionOutcome_AlwaysReturns(answer) == "returned"

AddSpacePermissionOutcome(answer) ==
    LET exc == RequestRaises(answer)
    IN  IF exc = "none" THEN "returned"
        ELSE IF AddCatches(exc, answer) THEN "returned"
        ELSE HandleApiErrors(exc)

\* remap.py:387-395: what reassign_perm does with the way a call ended:
\* go on, log a warning (except APIError), or let the exception out
AfterCall_SwallowAll(outcome) == "next"

AfterCall(outcome) ==
    CASE outcome = "returned" -> "next"
      [] outcome = "APIError" -> "warn"
      [] OTHER -> "raise"

\* the type of a space: the personal space first
SpaceType(s) == IF s = 1 THEN "personal" ELSE "global"

\* ids of the permissions of old user i on space s
PermId(s, i, j) == ((s - 1) * MaxPairs + (i - 1)) * MaxPerms + j

\* what the server lists for space s when old user i holds count[i] permissions
\* on it: a group's permission, another user's, then those of the old users
RECURSIVE UserPerms(_, _, _)
UserPerms(s, i, count) ==
    IF i = 0 THEN <<>>
    ELSE UserPerms(s, i - 1, count)
         \o [j \in 1..count[i] |->
                [id |-> PermId(s, i, j), type |-> "user", identifier |-> OldIds[i],
                 op |-> "read"]]

PermListing(s, count) ==
    << [id |-> 0, type |-> "group", identifier |-> "old1", op |-> "read"],
       [id |-> 0, type |-> "user", identifier |-> "other", op |-> "read"] >>
    \o UserPerms(s, Len(count), count)

PermListings(s, np) == {PermListing(s, count) : count \in [1..np -> 0..MaxPerms]}

\* remap.py:375-380: the permissions kept for a space
KeepPerm(perm, users) ==
    /\ perm.type = "user"
    /\ \E u \in DOMAIN users : perm.identifier = users[u]

RECURSIVE FilterPerms(_, _)
FilterPerms(listing, users) ==
    IF listing = <<>> THEN <<>>
    ELSE IF KeepPerm(Head(listing), users)
         THEN <<Head(listing)>> \o FilterPerms(Tail(listing), users)
         ELSE FilterPerms(Tail(listing), users)

OldUsers(ums) == [i \in 1..Len(ums) |-> ums[i].old]

\* the HTTP method of the request a mutating client method makes
\* (confluence.py:102, 163, 186, 194; jira.py:119)
HttpMethod(op) ==
    CASE op = "acquire_admin" -> "POST"
      [] op = "add_space_permission" -> "POST"
      [] op = "remove_space_permission" -> "DELETE"
      [] op = "rename_space" -> "PUT"
      [] op = "set_filter_owner" -> "PUT"
      [] OTHER -> "GET"

SpacesIdle ==
    /\ all_spaces = <<>>
    /\ permObjs = [r \in {} |-> 0]

\* await client.acquire_admin()
SpacesAdmin ==
    /\ command = "spaces"
    /\ mainPc = "start"
    /\ disc' = <<[pc |-> "wait", result |-> <<>>]>>
    /\ calls' = Logged(calls, [op |-> "acquire_admin", space |-> 0, id |-> 0, acct |-> ""])
    /\ mainPc' = "admin"
    /\ UNCHANGED <<sem, command, dry_run, user_maps, maps, pairIdx, total, changed, kids>>
    /\ UNCHANGED <<all_spaces, permObjs>>

\* acquire_admin returned: all_spaces = await client.list_spaces()
SpacesList ==
    /\ command = "spaces"
    /\ mainPc = "admin"
    /\ disc[1].pc = "request"
    /\ sem' = RateLimitExit(sem, "ok")
    /\ disc' = <<[pc |-> "wait", result |-> <<>>]>>
    /\ mainPc' = "list"
    /\ UNCHANGED <<command, dry_run, user_maps, maps, pairIdx, total, changed, kids, calls>>
    /\ UNCHANGED <<all_spaces, permObjs>>

\* list_spaces returned n spaces: the gather of retrieve_space_permissions
SpacesListed ==
    /\ command = "spaces"
    /\ mainPc = "list"
    /\ disc[1].pc = "request"
    /\ sem' = RateLimitExit(sem, "ok")
    /\ \E n \in 0..MaxSpaces :
        /\ all_spaces' = [s \in 1..n |-> [id |-> s, type |-> SpaceType(s), permissions |-> <<>>]]
        /\ disc' = [s \in 1..n |-> [pc |-> "wait", result |-> <<>>]]
    /\ mainPc' = "discover"
    /\ UNCHANGED <<command, dry_run, user_maps, maps, pairIdx, total, changed, kids, calls>>
    /\ UNCHANGED permObjs

\* list_space_permissions(space) returned: space.permissions is set to the
\* permissions of the old users; the permission objects are <<space, position>>
PermsFound(s) ==
    /\ command = "spaces"
    /\ mainPc = "discover"
    /\ disc[s].pc = "request"
    /\ \E listing \in PermListings(s, Len(user_maps)) :
        LET kept == FilterPerms(listing, OldUsers(user_maps))
        IN  /\ disc' = [disc EXCEPT ![s].pc = "done"]
            /\ permObjs' = [r \in DOMAIN permObjs \cup {<<s, j>> : j \in 1..Len(kept)} |->
                                IF r \in DOMAIN permObjs THEN permObjs[r] ELSE kept[r[2]]]
            /\ all_spaces' = [all_spaces EXCEPT ![s].permissions =
                                [j \in 1..Len(kept) |-> <<s, j>>]]
    /\ sem' = RateLimitExit(sem, "ok")
    /\ UNCHANGED <<command, dry_run, user_maps, mainPc, maps, pairIdx, total, changed, kids, calls>>

\* the permissions of a space whose subject is the given accountId
PermsOf(space, acct, objs) ==
    LET keep == {j \in 1..Len(space.permissions) : objs[space.permissions[j]].identifier = acct}
        idx == SelectIdx(Len(space.permissions), keep)
    IN  [j \in 1..Len(idx) |-> space.permissions[idx[j]]]

\* remap.py:422-451: space_maps
SpacesOf(acct, spaces, objs) ==
    LET keep == {s \in 1..Len(spaces) : PermsOf(spaces[s], acct, objs) # <<>>}
        idx == SelectIdx(Len(spaces), keep)
    IN  [j \in 1..Len(idx) |->
            [id |-> spaces[idx[j]].id, type |-> spaces[idx[j]].type,
             permissions |-> PermsOf(spaces[idx[j]], acct, objs)]]

SpaceMaps(ums, spaces, objs) ==
    LET keep == {i \in 1..Len(ums) : SpacesOf(ums[i].old, spaces, objs) # <<>>}
        idx == SelectIdx(Len(ums), keep)
    IN  [j \in 1..Len(idx) |->
            [old |-> ums[idx[j]].old, new |-> ums[idx[j]].new,
             spaces |-> SpacesOf(ums[idx[j]].old, spaces, objs)]]

SpacesGathered ==
    /\ command = "spaces"
    /\ mainPc = "discover"
    /\ AllDone(disc)
    /\ maps' = SpaceMaps(user_maps, all_spaces, permObjs)
    /\ pairIdx' = 1
    /\ mainPc' = "loop"
    /\ UNCHANGED <<sem, command, dry_run, user_maps, disc, total, changed, kids, calls>>
    /\ UNCHANGED <<all_spaces, permObjs>>

\* the coroutines of one pair: per matched space reassign_space, awaiting the
\* gather of one reassign_perm per permission of the space
NoRef == <<0, 0>>

SpaceKid(space, acct) ==
    [kind |-> "space", space |-> space.id, pc |-> "await", phase |-> "perms",
     ref |-> NoRef, new |-> acct, got |-> "none", add |-> "none", rm |-> "none"]

PermKid(space, ref, acct) ==
    [kind |-> "perm", space |-> space.id, pc |-> "wait", phase |-> "add",
     ref |-> ref, new |-> acct, got |-> "none", add |-> "none", rm |-> "none"]

RECURSIVE SpaceKids(_, _)
SpaceKids(spaces, acct) ==
    IF spaces = <<>> THEN <<>>
    ELSE LET sp == Head(spaces)
         IN  <<SpaceKid(sp, acct)>>
             \o [j \in 1..Len(sp.permissions) |-> PermKid(sp, sp.permissions[j], acct)]
             \o SpaceKids(Tail(spaces), acct)

\* remap.py:384-386: new_perm = perm.model_copy() is a shallow copy, so
\* new_perm.subject is perm.subject, and setting new_perm.subject.identifier
\* sets it on the discovered permission as well; new_perm.id = None does not
\* touch perm.id
AfterModelCopy(perm, acct) == [perm EXCEPT !.identifier = acct]

AddCall(k, objs) ==
    [op |-> "add_space_permission", space |-> k.space, id |-> objs[k.ref].id, acct |-> k.new]

RemoveCall(k, objs) ==
    [op |-> "remove_space_permission", space |-> k.space, id |-> objs[k.ref].id, acct |-> ""]

RenameCall(k) ==
    [op |-> "rename_space", space |-> k.space, id |-> 0, acct |-> k.new]

PermKidsOf(ks) == SelectIdx(Len(ks), {k \in 1..Len(ks) : ks[k].kind = "perm"})

\* one turn of `for old, new, spaces in space_maps:` up to its first await
SpacesLoop ==
    /\ command = "spaces"
    /\ mainPc = "loop"
    /\ IF pairIdx > Len(maps)
       THEN /\ mainPc' = "summary"
            /\ UNCHANGED <<pairIdx, total, kids, calls, permObjs>>
       ELSE LET m == maps[pairIdx]
                user_total == SumSeq([s \in 1..Len(m.spaces) |-> Len(m.spaces[s].permissions)])
            IN  /\ total' = total + user_total
                /\ IF SkipPair(dry_run, user_total)
                   THEN /\ pairIdx' = pairIdx + 1
                        /\ UNCHANGED <<mainPc, kids, calls, permObjs>>
                   ELSE LET ks == SpaceKids(m.spaces, m.new)
                            pk == PermKidsOf(ks)
                            refs == {ks[pk[j]].ref : j \in 1..Len(pk)}
                        IN  /\ kids' = ks
                            /\ permObjs' = [r \in DOMAIN permObjs |->
                                    IF r \in refs THEN AfterModelCopy(permObjs[r], m.new)
                                    ELSE permObjs[r]]
                            /\ calls' = LoggedAll(calls,
                                    [j \in 1..Len(pk) |-> AddCall(ks[pk[j]], permObjs)])
                            /\ mainPc' = "mutate"
                            /\ UNCHANGED pairIdx
    /\ UNCHANGED <<sem, command, dry_run, user_maps, disc, maps, changed, all_spaces>>

\* a request of reassign_perm or of rename_space gets its permit and is sent
SpaceKidSend(k) ==
    /\ command = "spaces"
    /\ mainPc = "mutate"
    /\ kids[k].pc = "wait"
    /\ CanAcquire(sem)
    /\ sem' = Acquired(sem)
    /\ kids' = [kids EXCEPT ![k].pc = "request"]
    /\ UNCHANGED <<changed, calls>>

\* add_space_permission ended: on success changed += 1 and
\* remove_space_permission(space, perm) is called
PermAdded(k) ==
    /\ command = "spaces"
    /\ mainPc = "mutate"
    /\ kids[k].kind = "perm" /\ kids[k].phase = "add" /\ kids[k].pc = "request"
    /\ \E answer \in MutationAnswers :
        LET outcome == AddSpacePermissionOutcome(answer)
            after == AfterCall(outcome)
        IN  /\ sem' = RateLimitExit(sem, IF answer = "ok" THEN "ok" ELSE "error")
            /\ kids' = [kids EXCEPT ![k].got = answer,
                                    ![k].add = outcome,
                                    ![k].phase = IF after = "next" THEN "remove" ELSE @,
                                    ![k].pc = CASE after = "next" -> "wait"
                                                [] after = "warn" -> "done"
                                                [] OTHER -> "raised"]
            /\ changed' = IF after = "next" THEN changed + 1 ELSE changed
            /\ calls' = IF after = "next" THEN Logged(calls, RemoveCall(kids[k], permObjs))
                        ELSE calls

\* remove_space_permission ended
PermRemoved(k) ==
    /\ command = "spaces"
    /\ mainPc = "mutate"
    /\ kids[k].kind = "perm" /\ kids[k].phase = "remove" /\ kids[k].pc = "request"
    /\ \E answer \in {"ok", "httperror", "exception"} :
        LET outcome == MethodOutcome(answer)
            after == AfterCall(outcome)
        IN  /\ sem' = RateLimitExit(sem, IF answer = "ok" THEN "ok" ELSE "error")
            /\ kids' = [kids EXCEPT ![k].rm = outcome,
                                    ![k].pc = IF after = "raise" THEN "raised" ELSE "done"]
    /\ UNCHANGED <<changed, calls>>

\* remap.py:406: if space.type == "personal"
IsPersonal_Always(type) == TRUE

IsPersonal(type) == type = "personal"

\* the gather of the reassign_perm of a space is done: a personal space is renamed
SpaceResume(k) ==
    /\ command = "spaces"
    /\ mainPc = "mutate"
    /\ kids[k].kind = "space" /\ kids[k].pc = "await"
    /\ \A j \in DOMAIN kids :
            kids[j].kind = "perm" /\ kids[j].space = kids[k].space => kids[j].pc = "done"
    /\ IF IsPersonal(SpaceType(kids[k].space))
       THEN /\ kids' = [kids EXCEPT ![k].phase = "rename", ![k].pc = "wait"]
            /\ calls' = Logged(calls, RenameCall(kids[k]))
       ELSE /\ kids' = [kids EXCEPT ![k].pc = "done"]
            /\ UNCHANGED calls
    /\ UNCHANGED <<sem, changed>>

\* rename_space ended: nothing in reassign_space catches its exception
SpaceRenamed(k) ==
    /\ command = "spaces"
    /\ mainPc = "mutate"
    /\ kids[k].kind = "space" /\ kids[k].phase = "rename" /\ kids[k].pc = "request"
    /\ \E answer \in {"ok", "httperror", "exception"} :
        /\ sem' = RateLimitExit(sem, IF answer = "ok" THEN "ok" ELSE "error")
        /\ kids' = [kids EXCEPT ![k].pc =
                        IF MethodOutcome(answer) = "returned" THEN "done" ELSE "raised"]
    /\ UNCHANGED <<changed, calls>>

SpacesPairDone ==
    /\ command = "spaces"
    /\ mainPc = "mutate"
    /\ AllDone(kids)
    /\ kids' = <<>>
    /\ pairIdx' = pairIdx + 1
    /\ mainPc' = "loop"
    /\ UNCHANGED <<sem, command, dry_run, user_maps, disc, maps, total, changed, calls>>
    /\ UNCHANGED <<all_spaces, permObjs>>

----------------------------------------------------------------------------
(* JiraClient.resolve_user, client/jira.py:74-90 *)

\* Most users in one answer of the user search.
MaxMatches == 3

\* Most rows of the mapping CSV.
MaxRows == 2

\* the users the server knows: two accounts share an e-mail address, one has none
Directory ==
    {[accountId |-> "acc1", emailAddress |-> "a@x"],
     [accountId |-> "acc2", emailAddress |-> "a@x"],
     [accountId |-> "acc3", emailAddress |-> "None"]}

NoUser == [accountId |-> "", emailAddress |-> ""]

\* what a row of the CSV may name: an e-mail address, an accountId, nobody
Identifiers == {"a@x", "acc1", "acc3", "nobody"}

UserLists == UNION {[1..n -> Directory] : n \in 0..MaxMatches}

\* what GET /rest/api/3/user/search is answered with: a JSON array of users,
\* something that is not an array, an error status, or nothing (transport error)
SearchAnswers ==
    [kind : {"ok"}, users : UserLists]
    \cup [kind : {"notlist", "httperror", "exception"}, users : {<<>>}]

Resolved(u) == [kind |-> "User", user |-> u]

Failed(exc) == [kind |-> exc, user |-> NoUser]

\* u.accountId == identifier or u.emailAddress == identifier
ExactMatch(u, identifier) == u.accountId = identifier \/ u.emailAddress = identifier

FirstExact_LastExact(users, identifier) ==
    LET hits == {i \in DOMAIN users : ExactMatch(users[i], identifier)}
    IN  IF hits = {} THEN 0 ELSE CHOOSE i \in hits : \A j \in hits : j <= i

\* for u in resp: ... return u -- the position of the first exact match, or 0
FirstExact(users, identifier) ==
    LET hits == {i \in DOMAIN users : ExactMatch(users[i], identifier)}
    IN  IF hits = {} THEN 0 ELSE CHOOSE i \in hits : \A j \in hits : i <= j

\* jira.py:81-90: the body of resolve_user after the request returned resp
ResolveUserBody(identifier, answer) ==
    IF answer.kind = "notlist" THEN Failed("AssertionError")
    ELSE IF Len(answer.users) = 1 THEN Resolved(answer.users[1])
    ELSE IF Len(answer.users) > 1 /\ FirstExact(answer.users, identifier) # 0
         THEN Resolved(answer.users[FirstExact(answer.users, identifier)])
    ELSE Failed("APIError")

\* resolve_user under handle_jira_errors: an error status leaves as an
\* APIError, any other exception as it is
ResolveUser(identifier, answer) ==
    IF RequestRaises(answer.kind) # "none"
    THEN Failed(HandleApiErrors(RequestRaises(answer.kind)))
    ELSE ResolveUserBody(identifier, answer)

----------------------------------------------------------------------------
(* remap_callback, cli/remap.py:30-106 *)

RowIds ==
    <<[old |-> "a@x", new |-> "acc3"], [old |-> "acc3", new |-> "a@x"],
      [old |-> "nobody", new |-> "acc3"], [old |-> "a@x", new |-> "nobody"]>>

\* rows = list(reader): each row an old and a new identifier
Rows(n) == [r \in 1..n |-> RowIds[((r - 1) % Len(RowIds)) + 1]]

Sides == {"old", "new"}

NoOut == [kind |-> "none", user |-> NoUser]

NoPair == [old |-> "", new |-> ""]

ResolveIdle ==
    /\ rows = <<>>
    /\ res = <<>>
    /\ warned = <<>>
    /\ cbPc = "idle"

\* the callback has read the CSV
ResolveInit ==
    /\ \E n \in 0..MaxRows : rows = Rows(n)
    /\ res = <<>>
    /\ warned = <<>>
    /\ cbPc = "start"

\* user_solved = await asyncio.gather(*(resolve_user_map(row) for row in rows)):
\* each resolve_user_map starts its two resolve_user
CbStart ==
    /\ cbPc = "start"
    /\ res' = [r \in DOMAIN rows |->
                [pc |-> "await", result |-> NoPair,
                 old |-> [pc |-> "wait", out |-> NoOut],
                 new |-> [pc |-> "wait", out |-> NoOut]]]
    /\ warned' = [r \in DOMAIN rows |-> 0]
    /\ cbPc' = "resolving"
    /\ UNCHANGED <<sem, rows, user_maps>>

\* resolve_user has its permit: the search is sent
SideSend(r, side) ==
    /\ cbPc = "resolving"
    /\ res[r][side].pc = "wait"
    /\ CanAcquire(sem)
    /\ sem' = Acquired(sem)
    /\ res' = [res EXCEPT ![r][side].pc = "request"]
    /\ UNCHANGED <<rows, warned, cbPc, user_maps>>

\* the search is answered: resolve_user returns a user or raises
SideAnswer(r, side) ==
    /\ cbPc = "resolving"
    /\ res[r][side].pc = "request"
    /\ \E answer \in SearchAnswers :
        /\ sem' = RateLimitExit(sem, IF RequestRaises(answer.kind) = "none" THEN "ok" ELSE "error")
        /\ res' = [res EXCEPT ![r][side] =
                        [pc |-> "done", out |-> ResolveUser(rows[r][side], answer)]]
    /\ UNCHANGED <<rows, warned, cbPc, user_maps>>

Gather_FirstException(old_user, new_user) ==
    IF old_user.kind # "User" \/ new_user.kind # "User" THEN "raise" ELSE "return"

\* remap.py:77-81: asyncio.gather(..., return_exceptions=True) hands the
\* exceptions back as results
GatherReturnExceptions(old_user, new_user) == "return"

\* the warnings of remap.py:83-86: one per side that is an APIError
Warnings(old_user, new_user) ==
    (IF old_user.kind = "APIError" THEN 1 ELSE 0)
    + (IF new_user.kind = "APIError" THEN 1 ELSE 0)

BothResolved_Either(old_user, new_user) == old_user.kind = "User" \/ new_user.kind = "User"

\* isinstance(old_user, User) and isinstance(new_user, User)
BothResolved(old_user, new_user) == old_user.kind = "User" /\ new_user.kind = "User"

\* both resolve_user of a row are done: resolve_user_map goes on to its end
RowDone(r) ==
    /\ cbPc = "resolving"
    /\ res[r].pc = "await"
    /\ res[r].old.pc = "done" /\ res[r].new.pc = "done"
    /\ LET old_user == res[r].old.out
           new_user == res[r].new.out
       IN  IF GatherReturnExceptions(old_user, new_user) = "raise"
           THEN /\ res' = [res EXCEPT ![r].pc = "raised"]
                /\ UNCHANGED warned
           ELSE /\ warned' = [warned EXCEPT ![r] = Warnings(old_user, new_user)]
                /\ res' = [res EXCEPT
                            ![r].pc = "done",
                            ![r].result =
                                IF BothResolved(old_user, new_user)
                                THEN [old |-> old_user.user.accountId,
                                      new |-> new_user.user.accountId]
                                ELSE NoPair]
    /\ UNCHANGED <<sem, rows, cbPc, user_maps>>

\* [um for um in user_solved if um is not None]
NotNone(solved) ==
    LET idx == SelectIdx(Len(solved), {r \in DOMAIN solved : solved[r].result # NoPair})
    IN  [j \in 1..Len(idx) |-> solved[idx[j]].result]

\* the gather of the rows is done (or one resolve_user_map raised, which ends
\* the callback): ctx.obj gets user_maps
CbGathered ==
    /\ cbPc = "resolving"
    /\ AllDone(res) \/ \E r \in DOMAIN res : Raised(res[r])
    /\ IF \E r \in DOMAIN res : Raised(res[r])
       THEN /\ cbPc' = "raised"
            /\ UNCHANGED user_maps
       ELSE /\ cbPc' = "resolved"
            /\ user_maps' = NotNone(res)
    /\ UNCHANGED <<sem, rows, res, warned>>

\* what the callback leaves alone: the subcommand has not begun
resolveFrame ==
    <<capacity, opPc, bulkVars, command, dry_run, mainPc, disc, maps, pairIdx, total, changed,
      kids, calls, issueVars, spaceVars, lookup, pager, conf, stagger>>

ResolveNext ==
    \/ CbStart /\ UNCHANGED resolveFrame
    \/ \E r \in DOMAIN res : \E side \in Sides : SideSend(r, side) /\ UNCHANGED resolveFrame
    \/ \E r \in DOMAIN res : \E side \in Sides : SideAnswer(r, side) /\ UNCHANGED resolveFrame
    \/ \E r \in DOMAIN res : RowDone(r) /\ UNCHANGED resolveFrame
    \/ CbGathered /\ UNCHANGED resolveFrame

----------------------------------------------------------------------------
(* One call of JiraClient.resolve_user, client/jira.py:74-90 *)

LookupIdle == lookup = [pc |-> "idle", identifier |-> "", answer |-> [kind |-> "none", users |-> <<>>], out |-> NoOut]

\* resolve_user(identifier) is called
LookupInit ==
    \E identifier \in Identifiers :
        lookup = [pc |-> "wait", identifier |-> identifier,
                  answer |-> [kind |-> "none", users |-> <<>>], out |-> NoOut]

\* jira.py:77-80: under the rate limit the search is sent
LookupSend ==
    /\ lookup.pc = "wait"
    /\ CanAcquire(sem)
    /\ sem' = Acquired(sem)
    /\ lookup' = [lookup EXCEPT !.pc = "request"]

\* the search is answered: resolve_user returns or raises
LookupAnswer ==
    /\ lookup.pc = "request"
    /\ \E answer \in SearchAnswers :
        /\ sem' = RateLimitExit(sem, IF RequestRaises(answer.kind) = "none" THEN "ok" ELSE "error")
        /\ lookup' = [lookup EXCEPT !.pc = "done", !.answer = answer,
                                    !.out = ResolveUser(lookup.identifier, answer)]

lookupFrame == <<capacity, opPc, bulkVars, remapVars, resolveVars, pager, conf, stagger>>

LookupNext ==
    \/ LookupSend /\ UNCHANGED lookupFrame
    \/ LookupAnswer /\ UNCHANGED lookupFrame

----------------------------------------------------------------------------
(* The pagination loops: JiraClient.get_filters_for_user (jira.py:92-112),   *)
(* JiraClient.search_issue_keys_for_user_field (jira.py:124-158),            *)
(* ConfluenceClient.list_spaces and list_space_permissions                   *)
(* (confluence.py:104-153)                                                   *)

\* Most pages the server holds.
MaxPages == 3

\* Most items on one page.
MaxPageSize == 2

\* Most follow-up requests of one traversal the model follows.
MaxFollowUps == 4

\* "filters": nextPage; "spaces": _links.next; "issues": nextPageToken
PageStyles == {"filters", "spaces", "issues"}

\* a next pointer: the field is absent, null, the empty string, or a token
\* that names a page of the server
Absent == [kind |-> "absent", page |-> 0]

NoNext == {Absent, [kind |-> "null", page |-> 0], [kind |-> "empty", page |-> 0]}

Token(i) == [kind |-> "token", page |-> i]

\* the i-th page's items, of which there are a
PageItems(i, a) == [j \in 1..a |-> 10 * i + j]

\* a server whose pages 1..k-1 each point to the next one and whose page k
\* does not point anywhere
ChainServers ==
    UNION {{[i \in 1..k |-> [items |-> PageItems(i, sz[i]),
                             next |-> IF i < k THEN Token(i + 1) ELSE last]]
            : sz \in [1..k -> 0..MaxPageSize], last \in NoNext}
           : k \in 1..MaxPages}

\* a server that sends the same next pointer with every page
EchoServers ==
    UNION {{[i \in 1..k |-> [items |-> PageItems(i, sz[i]), next |-> Token(e)]]
            : sz \in [1..k -> 0..MaxPageSize], e \in 1..k}
           : k \in 1..MaxPages}

\* str(resp.get("nextPageToken", "")): a missing token is "", a null one is
\* the string "None", which names no page
StrToken(next) ==
    CASE next.kind = "absent" -> [kind |-> "empty", page |-> 0]
      [] next.kind = "null" -> Token(0)
      [] OTHER -> next

\* the pointer the loop goes on with
NextPointer(style, next) == IF style = "issues" THEN StrToken(next) ELSE next

\* if next_page := ... / if not next_page: break / if next_page_token := ...
Truthy(ptr) == ptr.kind = "token"

Extend_Replace(results, items) == items

\* filters.extend(...) / results.extend(...) / keys.extend(...)
Extend(results, items) == results \o items

PagerIdle ==
    pager = [pc |-> "idle", style |-> "filters", pages |-> <<>>, want |-> Absent,
             results |-> <<>>, sent |-> 0, recv |-> 0, followed |-> <<>>, exc |-> "none"]

\* the method is called: its first request asks for the first page
PagerInit ==
    \E style \in PageStyles : \E pages \in ChainServers \cup EchoServers :
        pager = [pc |-> "wait", style |-> style, pages |-> pages, want |-> Token(1),
                 results |-> <<>>, sent |-> 0, recv |-> 0, followed |-> <<>>, exc |-> "none"]

\* async with self._rate_limit(): resp = await self.request(...)
PageSend ==
    /\ pager.pc = "wait"
    /\ CanAcquire(sem)
    /\ sem' = Acquired(sem)
    /\ pager' = [pager EXCEPT !.pc = "request", !.sent = @ + 1]

\* what the server may answer a request for the pointer want with
PageAnswers(want) ==
    {"httperror", "exception"}
    \cup (IF want.page \in DOMAIN pager.pages THEN {"ok", "notdict"} ELSE {})

\* the request raised: the exception leaves the method through
\* handle_api_errors
PageRaise ==
    /\ pager.pc = "request"
    /\ \E answer \in PageAnswers(pager.want) \ {"ok"} :
        /\ sem' = RateLimitExit(sem, IF answer = "notdict" THEN "ok" ELSE "error")
        /\ pager' = [pager EXCEPT
                        !.pc = "raised",
                        !.recv = IF answer = "notdict" THEN @ + 1 ELSE @,
                        !.exc = IF answer = "notdict" THEN "AssertionError"
                                ELSE HandleApiErrors(RequestRaises(answer))]

\* the page arrived: its items are collected, and the loop either goes on to
\* the request of the next page or returns
PageReceive ==
    /\ pager.pc = "request"
    /\ "ok" \in PageAnswers(pager.want)
    /\ sem' = RateLimitExit(sem, "ok")
    /\ LET resp == pager.pages[pager.want.page]
           next_page == NextPointer(pager.style, resp.next)
           results == Extend(pager.results, resp.items)
       IN  IF ~Truthy(next_page)
           THEN pager' = [pager EXCEPT !.pc = "returned", !.recv = @ + 1, !.results = results]
           ELSE pager' = [pager EXCEPT
                            !.pc = IF Len(pager.followed) < MaxFollowUps THEN "wait" ELSE "more",
                            !.recv = @ + 1,
                            !.results = results,
                            !.want = next_page,
                            !.followed = IF Len(@) < MaxFollowUps THEN Append(@, next_page) ELSE @]

pagerFrame == <<capacity, opPc, bulkVars, remapVars, resolveVars, lookup, conf, stagger>>

PagerNext ==
    \/ PageSend /\ UNCHANGED pagerFrame
    \/ PageRaise /\ UNCHANGED pagerFrame
    \/ PageReceive /\ UNCHANGED pagerFrame

----------------------------------------------------------------------------
(* The configuration: Settings (config.py:10-53), its creation in the CLI     *)
(* callback (cli/main.py:38-45), the --concurrency option of remap           *)
(* (cli/remap.py:51-56) and get_client (config.py:36-42)                     *)

\* Field(10, ge=1, le=20)
ConcurrencyDefault == 10

ConcurrencyGe == 1

ConcurrencyLe == 20

\* How far beyond le the values given reach.
MaxOver == 1

\* JTOOL_CONCURRENCY, and --concurrency: not given, or an integer
NotGiven == 0 - 1000

Given == {NotGiven} \cup ((0 - 1)..(ConcurrencyLe + MaxOver))

\* the constraints ge=1, le=20 of the field
ValidConcurrency(v) == v >= ConcurrencyGe /\ v <= ConcurrencyLe

\* Settings(): the field is validated when the model is built
LoadedConcurrency(env) == IF env = NotGiven THEN ConcurrencyDefault ELSE env

\* settings.concurrency = concurrency: model_config does not set
\* validate_assignment, so the value is stored as it is and no
\* ValidationError is raised
AssignedConcurrency(old, v) == v

\* `if concurrency:` -- the option was given and is not 0
OptionTruthy(v) == v # NotGiven /\ v # 0

ConfIdle == conf = [pc |-> "idle", env |-> NotGiven, option |-> NotGiven, concurrency |-> 0]

ConfInit ==
    \E env \in Given : \E option \in Given :
        conf = [pc |-> "load", env |-> env, option |-> option, concurrency |-> 0]

\* cli/main.py:38-45: settings = Settings(env_file=env_file), or Exit(2)
SettingsLoad ==
    /\ conf.pc = "load"
    /\ IF ValidConcurrency(LoadedConcurrency(conf.env))
       THEN conf' = [conf EXCEPT !.pc = "callback", !.concurrency = LoadedConcurrency(conf.env)]
       ELSE conf' = [conf EXCEPT !.pc = "exit"]
    /\ UNCHANGED <<capacity, sem>>

\* cli/remap.py:51-56: the assignment raises nothing, so the except branch
\* with its Exit(1) is never entered
ConcurrencyOption ==
    /\ conf.pc = "callback"
    /\ IF OptionTruthy(conf.option)
       THEN conf' = [conf EXCEPT
                        !.pc = "ready",
                        !.concurrency = AssignedConcurrency(conf.concurrency, conf.option)]
       ELSE conf' = [conf EXCEPT !.pc = "ready"]
    /\ UNCHANGED <<capacity, sem>>

\* settings.get_client(...): BaseClient.__init__ makes Semaphore(concurrency),
\* which raises ValueError for a negative value
GetClient ==
    /\ conf.pc = "ready"
    /\ IF conf.concurrency < 0
       THEN /\ conf' = [conf EXCEPT !.pc = "raised"]
            /\ UNCHANGED <<capacity, sem>>
       ELSE /\ conf' = [conf EXCEPT !.pc = "client"]
            /\ capacity' = conf.concurrency
            /\ sem' = conf.concurrency

confFrame == <<opPc, bulkVars, remapVars, resolveVars, lookup, pager, stagger>>

ConfNext ==
    \/ SettingsLoad /\ UNCHANGED confFrame
    \/ ConcurrencyOption /\ UNCHANGED confFrame
    \/ GetClient /\ UNCHANGED confFrame

----------------------------------------------------------------------------
(* The stagger wait of BaseClient._rate_limit (client/base.py:151-161) with  *)
(* a clock, and the arguments its call sites give it                         *)

\* Latest time of the clock, in tenths of a second.
MaxTime == 6

\* Largest batch_index a caller is given.
MaxIndex == 1

\* Callers of _rate_limit that run concurrently.
MaxCallers == 2

\* delay: float = 0.1 -- the default, in tenths of a second
DelayDefault == 1

\* delay=0.5 of send_batch, in tenths of a second
DelayBatch == 5

\* stagger_order: int = 0 -- the default
StaggerDefault == 0

\* the methods whose requests go through _rate_limit: send_batch
\* (jira.py:173), get_task_status (jira.py:227), and the others, which all
\* call self._rate_limit() without arguments (jira.py:70, 77, 95, 109, 117,
\* 136; confluence.py:101-192), here set_filter_owner
CallSites == {"send_batch", "get_task_status", "set_filter_owner"}

\* the arguments of the call of _rate_limit in a method called with batch_index
RateLimitArgs(site, batch_index) ==
    CASE site = "send_batch" -> [stagger_order |-> batch_index, delay |-> DelayBatch]
      [] site = "get_task_status" -> [stagger_order |-> batch_index, delay |-> DelayDefault]
      [] OTHER -> [stagger_order |-> StaggerDefault, delay |-> DelayDefault]

\* await asyncio.sleep(stagger_order * delay): the seconds slept at least
SleepFor_Nothing(stagger_order, delay) == 0

SleepFor(stagger_order, delay) == stagger_order * delay

Callers == 1..MaxCallers

NoCaller == [site |-> "none", index |-> 0, pc |-> "idle", entered |-> 0, woke |-> 0]

StaggerIdle == stagger = [now |-> 0, callers |-> [c \in Callers |-> NoCaller]]

StaggerInit ==
    \E cs \in [Callers -> [site : CallSites, index : 0..MaxIndex, pc : {"idle"},
                           entered : {0}, woke : {0}]] :
        stagger = [now |-> 0, callers |-> cs]

\* time passes; a sleeping coroutine may be resumed later than it asked for
Tick ==
    /\ stagger.now < MaxTime
    /\ stagger' = [stagger EXCEPT !.now = @ + 1]
    /\ UNCHANGED <<capacity, sem>>

\* the method enters `async with self._rate_limit(...)` and suspends in the sleep
StaggerEnter(c) ==
    /\ stagger.callers[c].pc = "idle"
    /\ stagger' = [stagger EXCEPT !.callers[c].pc = "sleep",
                                  !.callers[c].entered = stagger.now]
    /\ UNCHANGED <<capacity, sem>>

\* asyncio.sleep returns, not before the time asked for has passed; the
\* coroutine goes on to self._semaphore.acquire()
StaggerWake(c) ==
    LET caller == stagger.callers[c]
        args == RateLimitArgs(caller.site, caller.index)
    IN  /\ caller.pc = "sleep"
        /\ stagger.now >= caller.entered + SleepFor(args.stagger_order, args.delay)
        /\ stagger' = [stagger EXCEPT !.callers[c].pc = "acquire",
                                      !.callers[c].woke = stagger.now]
        /\ UNCHANGED <<capacity, sem>>

\* acquire() returns and the request of the with-body is sent
StaggerAcquire(c) ==
    /\ stagger.callers[c].pc = "acquire"
    /\ CanAcquire(sem)
    /\ sem' = Acquired(sem)
    /\ stagger' = [stagger EXCEPT !.callers[c].pc = "request"]
    /\ UNCHANGED capacity

\* the request returns or raises; finally: release()
StaggerExit(c) ==
    /\ stagger.callers[c].pc = "request"
    /\ \E how \in {"ok", "error"} : sem' = RateLimitExit(sem, how)
    /\ stagger' = [stagger EXCEPT !.callers[c].pc = "done"]
    /\ UNCHANGED capacity

staggerFrame == <<opPc, bulkVars, remapVars, resolveVars, lookup, pager, conf>>

StaggerNext ==
    \/ Tick /\ UNCHANGED staggerFrame
    \/ \E c \in Callers : StaggerEnter(c) /\ UNCHANGED staggerFrame
    \/ \E c \in Callers : StaggerWake(c) /\ UNCHANGED staggerFrame
    \/ \E c \in Callers : StaggerAcquire(c) /\ UNCHANGED staggerFrame
    \/ \E c \in Callers : StaggerExit(c) /\ UNCHANGED staggerFrame

AuxIdle == ResolveIdle /\ LookupIdle /\ PagerIdle /\ ConfIdle /\ StaggerIdle

----------------------------------------------------------------------------
(* The remap commands: the next-state relation *)

\* main() awaits a gather one of whose coroutines raised: the exception leaves
\* main() (nothing in it catches), and asyncio.run() cancels what still runs
Abort ==
    /\ \/ mainPc \in {"admin", "list", "discover"} /\ \E i \in DOMAIN disc : Raised(disc[i])
       \/ mainPc = "mutate" /\ \E k \in DOMAIN kids : Raised(kids[k])
       \/ mainPc \in {"poll0", "pollN"} /\ \E p \in DOMAIN polls : Raised(polls[p])
    /\ mainPc' = "raised"
    /\ disc' = CancelAll(disc)
    /\ kids' = CancelAll(kids)
    /\ polls' = CancelAll(polls)
    /\ sem' = ReleaseAll(sem, Holding(disc) + Holding(kids) + Holding(polls))
    /\ UNCHANGED <<command, dry_run, user_maps, maps, pairIdx, total, changed, calls>>
    /\ UNCHANGED <<user_changed, task_ids, tasks, pending_tasks, srv, seen, progress>>
    /\ UNCHANGED <<all_spaces, permObjs>>

RemapIdle == MainIdle /\ IssuesIdle /\ SpacesIdle

RemapInit ==
    /\ ClientInit
    /\ AuxIdle
    /\ MainInit
    /\ IssuesIdle
    /\ SpacesIdle
    /\ BulkIdle
    /\ opPc = [o \in Ops |-> "idle"]

\* what a step of a discovery coroutine leaves alone
discFrame == <<command, dry_run, user_maps, mainPc, maps, pairIdx, total, changed, kids, calls,
               capacity, opPc, auxVars, bulkVars, issueVars>>

\* what a step of a mutation coroutine leaves alone
kidFrame == <<command, dry_run, user_maps, mainPc, disc, maps, pairIdx, total,
              capacity, opPc, auxVars, bulkVars, issueVars, spaceVars>>

\* what a step of main() outside the issues tracker leaves alone
mainFrame == <<capacity, opPc, auxVars, bulkVars, issueVars>>

\* the steps of a discovery coroutine that the three commands share
DiscNext ==
    \/ \E i \in DOMAIN disc : DiscSend(i) /\ UNCHANGED <<discFrame, spaceVars>>
    \/ \E i \in DOMAIN disc : DiscNextPage(i) /\ UNCHANGED <<discFrame, spaceVars>>
    \/ \E i \in DOMAIN disc : DiscRaise(i) /\ UNCHANGED <<discFrame, spaceVars>>

\* remap filters
FiltersNext ==
    \/ \E i \in DOMAIN disc : FiltersFound(i) /\ UNCHANGED <<discFrame, spaceVars>>
    \/ FiltersDiscover /\ UNCHANGED <<mainFrame, spaceVars>>
    \/ FiltersGathered /\ UNCHANGED <<mainFrame, spaceVars>>
    \/ FiltersLoop /\ UNCHANGED <<mainFrame, spaceVars>>
    \/ \E k \in DOMAIN kids : FilterSend(k) /\ UNCHANGED <<mainFrame, spaceVars>>
    \/ \E k \in DOMAIN kids : FilterChanged(k) /\ UNCHANGED <<mainFrame, spaceVars>>
    \/ \E k \in DOMAIN kids : FilterFailed(k) /\ UNCHANGED <<mainFrame, spaceVars>>
    \/ FiltersPairDone /\ UNCHANGED <<mainFrame, spaceVars>>

\* remap issues
IssuesNext ==
    \/ \E i \in DOMAIN disc : IssuesFound(i) /\ UNCHANGED <<discFrame, spaceVars>>
    \/ IssuesDiscover /\ UNCHANGED <<mainFrame, spaceVars>>
    \/ IssuesGathered /\ UNCHANGED <<mainFrame, spaceVars>>
    \/ IssuesLoop /\ UNCHANGED <<capacity, opPc, auxVars, issueVars, spaceVars>>
    \/ \E f \in Fields : \E c \in ChunkIds(f) :
            ChunkSleepDone(f, c) /\ UNCHANGED <<capacity, opPc, auxVars, mainVars, issueVars, spaceVars>>
    \/ \E f \in Fields : \E c \in ChunkIds(f) :
            ChunkSend(f, c) /\ UNCHANGED <<capacity, opPc, auxVars, mainVars, issueVars, spaceVars>>
    \/ \E f \in Fields : \E c \in ChunkIds(f) :
            ChunkAnswer(f, c) /\ UNCHANGED <<capacity, opPc, auxVars, mainVars, issueVars, spaceVars>>
    \/ \E f \in Fields :
            BulkReturn(f) /\ UNCHANGED <<capacity, opPc, auxVars, mainVars, issueVars, spaceVars>>
    \/ IssuesBulkDone /\ UNCHANGED <<capacity, opPc, auxVars, spaceVars>>
    \/ \E p \in DOMAIN polls :
            PollSend(p) /\ UNCHANGED <<capacity, opPc, auxVars, mainVars, bulkVars, spaceVars>>
    \/ \E p \in DOMAIN polls :
            PollAnswer(p) /\ UNCHANGED <<capacity, opPc, auxVars, mainVars, bulkVars, spaceVars>>
    \/ \E p \in DOMAIN polls :
            PollFail(p) /\ UNCHANGED <<capacity, opPc, auxVars, mainVars, bulkVars, spaceVars>>
    \/ InitialPollsDone /\ UNCHANGED <<capacity, opPc, auxVars, bulkVars, spaceVars>>
    \/ WhileTest /\ UNCHANGED <<capacity, opPc, auxVars, bulkVars, spaceVars>>
    \/ RoundDone /\ UNCHANGED <<capacity, opPc, auxVars, bulkVars, spaceVars>>
    \/ IssuesPairDone /\ UNCHANGED <<capacity, opPc, auxVars, bulkVars, spaceVars>>

\* remap spaces
SpacesNext ==
    \/ \E i \in DOMAIN disc : PermsFound(i) /\ UNCHANGED <<capacity, opPc, auxVars, bulkVars, issueVars>>
    \/ SpacesAdmin /\ UNCHANGED mainFrame
    \/ SpacesList /\ UNCHANGED mainFrame
    \/ SpacesListed /\ UNCHANGED mainFrame
    \/ SpacesGathered /\ UNCHANGED mainFrame
    \/ SpacesLoop /\ UNCHANGED mainFrame
    \/ \E k \in DOMAIN kids : SpaceKidSend(k) /\ UNCHANGED kidFrame
    \/ \E k \in DOMAIN kids : PermAdded(k) /\ UNCHANGED kidFrame
    \/ \E k \in DOMAIN kids : PermRemoved(k) /\ UNCHANGED kidFrame
    \/ \E k \in DOMAIN kids : SpaceResume(k) /\ UNCHANGED kidFrame
    \/ \E k \in DOMAIN kids : SpaceRenamed(k) /\ UNCHANGED kidFrame
    \/ SpacesPairDone /\ UNCHANGED mainFrame

\* how main() ends
EndNext ==
    \/ Abort /\ UNCHANGED <<capacity, opPc, auxVars, bulkVars>>
    \/ Summary /\ UNCHANGED <<mainFrame, spaceVars>>

RemapNext == DiscNext \/ FiltersNext \/ IssuesNext \/ SpacesNext \/ EndNext

RemapSpec == RemapInit /\ [][RemapNext]_vars

\* one command at a time
FiltersInit == RemapInit /\ command = "filters"

FiltersSpec == FiltersInit /\ [][DiscNext \/ FiltersNext \/ EndNext]_vars

IssuesInit == RemapInit /\ command = "issues"

IssuesSpec == IssuesInit /\ [][DiscNext \/ IssuesNext \/ EndNext]_vars

SpacesInit == RemapInit /\ command = "spaces"

SpacesSpec == SpacesInit /\ [][DiscNext \/ SpacesNext \/ EndNext]_vars

----------------------------------------------------------------------------
(* The specifications *)

\* the remap callback on its own
ResolveStart ==
    /\ ClientInit
    /\ opPc = [o \in Ops |-> "idle"]
    /\ BulkIdle
    /\ RemapIdle
    /\ ResolveInit
    /\ LookupIdle
    /\ PagerIdle
    /\ ConfIdle
    /\ StaggerIdle

ResolveSpec == ResolveStart /\ [][ResolveNext]_vars

\* one call of resolve_user on a fresh client
LookupStart ==
    /\ ClientInit
    /\ opPc = [o \in Ops |-> "idle"]
    /\ BulkIdle
    /\ RemapIdle
    /\ ResolveIdle
    /\ PagerIdle
    /\ ConfIdle
    /\ StaggerIdle
    /\ LookupInit

LookupSpec == LookupStart /\ [][LookupNext]_vars

\* one paginated traversal on a fresh client
PagerStart ==
    /\ ClientInit
    /\ opPc = [o \in Ops |-> "idle"]
    /\ BulkIdle
    /\ RemapIdle
    /\ ResolveIdle
    /\ LookupIdle
    /\ ConfIdle
    /\ StaggerIdle
    /\ PagerInit

PagerSpec == PagerStart /\ [][PagerNext]_vars

\* the tool starts: no client yet
ConfStart ==
    /\ capacity = 0
    /\ sem = 0
    /\ opPc = [o \in Ops |-> "idle"]
    /\ BulkIdle
    /\ RemapIdle
    /\ ResolveIdle
    /\ LookupIdle
    /\ PagerIdle
    /\ StaggerIdle
    /\ ConfInit

ConfSpec == ConfStart /\ [][ConfNext]_vars

\* callers of the gate on a fresh client, with a clock
StaggerStart ==
    /\ ClientInit
    /\ opPc = [o \in Ops |-> "idle"]
    /\ BulkIdle
    /\ RemapIdle
    /\ ResolveIdle
    /\ LookupIdle
    /\ PagerIdle
    /\ ConfIdle
    /\ StaggerInit

StaggerSpec == StaggerStart /\ [][StaggerNext]_vars

\* one bulk_update_user_field call on its own
BatchStart == BatchInit /\ RemapIdle /\ AuxIdle

BatchSpec == BatchStart /\ [][BatchNext]_vars

\* the gate on its own, under any operations
GateStart == GateInit /\ BulkIdle /\ RemapIdle /\ AuxIdle

GateSpec == GateStart /\ [][GateNext]_vars

\* the statuses a task of the bulk queue does not leave any more
SrvTerminal(status) == status \in TaskStatuses \ {"ENQUEUED", "RUNNING"}

\* most task ids one pair can get: one per chunk of the assigned keys, one for
\* the reported key
MaxTasks == MaxChunks + 1

\* a poll of task t is answered with a terminal status
PollTerminal(t) ==
    \E p \in DOMAIN polls :
        /\ polls[p].task = t
        /\ PollAnswer(p)
        /\ SrvTerminal(srv'[task_ids[t]].status)
        /\ UNCHANGED <<capacity, opPc, auxVars, mainVars, bulkVars, spaceVars>>

TrackerInit == IssuesInit /\ ~dry_run /\ Len(user_maps) = 1

TrackerNext == DiscNext \/ IssuesNext \/ EndNext

\* remap issues of one pair, where the event loop runs every coroutine that
\* can run, every request is answered, and every task that keeps being polled
\* is in the end reported in a terminal status
TrackerSpec ==
    /\ TrackerInit
    /\ [][TrackerNext]_vars
    /\ WF_vars(TrackerNext)
    /\ \A t \in 1..MaxTasks : SF_vars(PollTerminal(t))

----------------------------------------------------------------------------
(* C1: with gate capacity N, the number of requests in flight never exceeds N *)
C1_InFlightAtMostCapacity == Cardinality(InFlight) <= capacity

\* the gate is full while another operation is kept waiting for a permit
C1_Witness ==
    /\ Cardinality(InFlight) = capacity
    /\ \E o \in Ops : opPc[o] = "acquire"

(* C2: every permit acquired is released exactly once on every way out, so  *)
(* permits available + requests in flight = capacity, and with no request   *)
(* in flight all permits are available                                      *)
C2_PermitsConserved ==
    /\ sem + Cardinality(InFlight) = capacity
    /\ (InFlight = {} => sem = capacity)

\* after an error exit and a cancellation, nothing in flight
C2_Witness ==
    /\ InFlight = {}
    /\ \E o \in Ops : opPc[o] = "failed"
    /\ \E o \in Ops : opPc[o] = "cancelled"
    /\ \E o \in Ops : opPc[o] = "done"


(* C8: bulk_update_user_field with n keys submits exactly ceil(n/50) requests, *)
(* each of at most 50 keys and all but the last of exactly 50; the chunks in   *)
(* index order make up the input list; with n = 0 nothing is submitted and     *)
(* the result is empty                                                         *)
RECURSIVE Flatten(_)
Flatten(seqs) == IF seqs = <<>> THEN <<>> ELSE Head(seqs) \o Flatten(Tail(seqs))

CeilDiv(n, d) == (n + d - 1) \div d

\* the chunks whose request has been sent
Submitted(f) == {c \in ChunkIds(f) : chunkPc[f][c] \in {"request", "done"}}

C8_ChunksPartitionInput ==
    \A f \in Fields :
        bulkState[f] # "idle" =>
            LET n == Len(bulkKeys[f])
                k == Len(chunkKeys[f])
            IN  /\ k = CeilDiv(n, 50)
                /\ ChunkIds(f) = 1..k
                /\ \A c \in 1..k : Len(chunkKeys[f][c]) <= 50
                /\ \A c \in 1..(k - 1) : Len(chunkKeys[f][c]) = 50
                /\ Flatten(chunkKeys[f]) = bulkKeys[f]
                /\ (bulkState[f] = "returned" =>
                        /\ Cardinality(Submitted(f)) = CeilDiv(n, 50)
                        /\ (n = 0 => Submitted(f) = {} /\ bulkResult[f] = <<>>))

\* 101 keys: three requests of 50, 50 and 1 keys have been answered
C8_Witness ==
    \E f \in Fields :
        /\ bulkState[f] = "returned"
        /\ Len(bulkKeys[f]) = 101
        /\ Cardinality(Submitted(f)) = 3
        /\ Len(chunkKeys[f][3]) = 1

(* C9: a failed chunk is excluded from the result without raising and keeps   *)
(* no other chunk from being submitted or its task id from being returned:    *)
(* the result holds one task id per accepted chunk, in chunk order            *)
AcceptedChunks(f) == {c \in ChunkIds(f) : Accepted(chunkResp[f][c])}

----------------------------------------------------------------------------
(* C3: with dry_run set, remap filters / issues / spaces never invoke        *)
(* set_filter_owner, bulk_update_user_field, add_space_permission,           *)
(* remove_space_permission or rename_space, whatever the mapping and         *)
(* whatever discovery finds or fails with                                    *)
MutationOps ==
    {"set_filter_owner", "add_space_permission", "remove_space_permission", "rename_space"}

C3_DryRunNeverMutates ==
    dry_run =>
        /\ \A call \in DOMAIN calls : call.op \notin MutationOps
        /\ \A f \in Fields : bulkState[f] = "idle"
        /\ kids = <<>>
        /\ task_ids = <<>>

\* a dry run came to its summary having matched something
C3_Witness ==
    /\ dry_run
    /\ mainPc = "summary"
    /\ total > 0
    /\ maps # <<>>

----------------------------------------------------------------------------
(* C4: at the end of the tracking of a pair, the pair's changed count is the *)
(* sum over its tasks of the number of processed issues reported when the    *)
(* task was first observed terminal: each task counts exactly once           *)
C4_ChangedCountsEachTaskOnce ==
    mainPc = "tracked" =>
        user_changed = SumSeq([t \in 1..Len(seen) |-> seen[t].first])

\* one task, terminal at the initial poll with one processed issue, polled
\* again in the first round of the loop: it is counted twice
C4_Witness ==
    /\ mainPc = "tracked"
    /\ Len(tasks) = 1
    /\ seen[1] = [n |-> 2, first |-> 1]
    /\ user_changed = 2

----------------------------------------------------------------------------
(* C5: after the initial polls, a round polls only tasks not yet observed    *)
(* terminal: a task is pending iff no poll has observed it terminal, and     *)
(* once observed terminal it is not polled again                             *)
C5_OnlyUnfinishedPolledAgain ==
    /\ mainPc = "while" =>
            \A t \in DOMAIN tasks :
                (\E j \in DOMAIN pending_tasks : pending_tasks[j] = t) <=> seen[t].n = 0
    /\ mainPc = "pollN" =>
            \A p \in DOMAIN polls : Running(polls[p]) => seen[polls[p].task].n = 0

\* a round of the loop has sent the poll of a task that the initial poll
\* already observed terminal
C5_Witness ==
    /\ mainPc = "pollN"
    /\ \E p \in DOMAIN polls :
        /\ polls[p].pc = "request"
        /\ seen[polls[p].task].n = 1
        /\ IsFinished(tasks[polls[p].task].status)

----------------------------------------------------------------------------
(* C6: the tracking loop of a pair is left only when every task of the pair  *)
(* has been observed terminal, with nothing pending; and when every task     *)
(* that is polled again and again is in the end reported terminal, tracking  *)
(* that has begun does end: the loop is left with nothing pending, unless a  *)
(* poll failed                                                               *)
C6_TrackingEndsWhenAllTerminal ==
    /\ [](mainPc = "tracked" =>
            /\ pending_tasks = <<>>
            /\ \A t \in DOMAIN tasks : seen[t].n > 0 /\ IsFinished(tasks[t].status))
    /\ (mainPc = "poll0") ~>
            \/ mainPc = "tracked" /\ pending_tasks = <<>>
            \/ mainPc = "raised"

\* the loop was left with two tasks, one terminal at the initial poll (seen
\* terminal twice), one that became terminal in a later round (seen once)
C6_Witness ==
    /\ mainPc = "tracked"
    /\ Len(tasks) = 2
    /\ seen[1].n = 2
    /\ seen[2].n = 1

----------------------------------------------------------------------------
(* C7: a poll that fails for one task does not halt the polling of the       *)
(* others: when the command has ended after a failed poll (every task id     *)
(* being one the server gave), every other task of the pair has been         *)
(* observed terminal                                                         *)
C7_FailedPollDoesNotHaltOthers ==
    (/\ mainPc = "raised"
     /\ \E p \in DOMAIN polls : Raised(polls[p])
     /\ \A t \in DOMAIN task_ids : SrvKnows(task_ids[t])) =>
        \A q \in DOMAIN polls :
            ~Raised(polls[q]) => seen[polls[q].task].n > 0

\* the command has ended on the failed poll of one task, the poll of another
\* task, never observed terminal, was cancelled
C7_Witness ==
    /\ mainPc = "raised"
    /\ \A t \in DOMAIN task_ids : SrvKnows(task_ids[t])
    /\ \E p, q \in DOMAIN polls :
        /\ Raised(polls[p])
        /\ polls[q].pc = "cancelled"
        /\ seen[polls[q].task].n = 0

----------------------------------------------------------------------------
(* C10: the removal of the old user's permission is issued only after the    *)
(* addition of the new user's permission has returned; it is never issued    *)
(* before, and never when the addition failed                                *)
C10_RemoveOnlyAfterAdd ==
    \A k \in DOMAIN kids :
        kids[k].kind = "perm" =>
            /\ (kids[k].phase = "remove" \/ kids[k].rm # "none") => kids[k].add = "returned"
            /\ kids[k].add # "returned" =>
                    RemoveCall(kids[k], permObjs) \notin DOMAIN calls

\* one permission was added then removed while the addition of another failed
C10_Witness ==
    \E k, j \in DOMAIN kids :
        /\ kids[k].kind = "perm" /\ kids[k].add = "returned" /\ kids[k].rm = "returned"
        /\ kids[j].kind = "perm" /\ kids[j].add = "APIError" /\ kids[j].pc = "done"

----------------------------------------------------------------------------
(* C11: add_space_permission returns normally when the server answers the    *)
(* add request with 409, or with 400 and "Permission already exists."; every *)
(* other error status is raised to the caller                                *)
C11_AddConflictIsSoftSuccess ==
    \A k \in DOMAIN kids :
        (kids[k].kind = "perm" /\ kids[k].got # "none") =>
            /\ kids[k].got \in {"conflict409", "conflict400"} => kids[k].add = "returned"
            /\ kids[k].got \in {"httperror", "exception"} => kids[k].add # "returned"

\* the add request of a permission was answered 409 and add_space_permission
\* raised an APIError to reassign_perm
C11_Witness ==
    \E k \in DOMAIN kids :
        /\ kids[k].kind = "perm"
        /\ kids[k].got = "conflict409"
        /\ kids[k].add = "APIError"
        /\ kids[k].phase = "add"

----------------------------------------------------------------------------
(* C12: pairs are mutated one at a time: the loop moves on to the next pair  *)
(* only when no mutation request, bulk submission or task poll of the        *)
(* current pair is still running, and whatever mutation runs belongs to the  *)
(* current pair; within a pair the requests may overlap                      *)
MutationRunning ==
    \/ \E k \in DOMAIN kids : Running(kids[k])
    \/ \E p \in DOMAIN polls : Running(polls[p])
    \/ \E f \in Fields : bulkState[f] # "idle"

KidAccount(k) == IF command = "filters" THEN kids[k].acct ELSE kids[k].new

C12_PairsOneAtATime ==
    /\ [](MutationRunning =>
            /\ mainPc \in {"mutate", "bulk", "poll0", "pollN"}
            /\ pairIdx \in DOMAIN maps
            /\ \A k \in DOMAIN kids : KidAccount(k) = maps[pairIdx].new)
    /\ [][pairIdx' # pairIdx => ~MutationRunning]_vars

\* the second pair is being mutated, two of its requests in flight at once
C12_Witness ==
    /\ pairIdx = 2
    /\ mainPc = "mutate"
    /\ Cardinality({k \in DOMAIN kids : kids[k].pc = "request"}) = 2

----------------------------------------------------------------------------
(* C13: the mapping set the callback builds holds exactly one (old, new)     *)
(* entry for each CSV row whose two identifiers both resolve, in row order,  *)
(* whatever the order in which the resolutions complete                      *)
RowResolved(r) == res[r].old.out.kind = "User" /\ res[r].new.out.kind = "User"

RECURSIVE ResolvedFrom(_)
ResolvedFrom(r) ==
    IF r > Len(rows) THEN <<>>
    ELSE (IF RowResolved(r)
          THEN <<[old |-> res[r].old.out.user.accountId,
                  new |-> res[r].new.out.user.accountId]>>
          ELSE <<>>)
         \o ResolvedFrom(r + 1)

C13_OneEntryPerResolvedRow ==
    cbPc = "resolved" => user_maps = ResolvedFrom(1)

\* both rows resolved, the second one first
C13_Witness ==
    /\ cbPc = "resolved"
    /\ Len(rows) = 2
    /\ Len(user_maps) = 2
    /\ user_maps[1] # user_maps[2]

----------------------------------------------------------------------------
(* C14: a CSV row of which either identifier fails to resolve, for whatever  *)
(* reason, contributes no entry to the mapping set and exactly one warning   *)
(* is logged for it                                                          *)
C14_FailedRowOneWarning ==
    cbPc = "resolved" =>
        \A r \in DOMAIN rows :
            ~RowResolved(r) => res[r].result = NoPair /\ warned[r] = 1

\* a row whose old identifier failed on a transport error was dropped
\* without any warning
C14_Witness ==
    /\ cbPc = "resolved"
    /\ \E r \in DOMAIN rows :
        /\ res[r].old.out.kind = "TransportError"
        /\ res[r].new.out.kind = "User"
        /\ res[r].result = NoPair
        /\ warned[r] = 0

----------------------------------------------------------------------------
(* C15: a resolution failure of one row never aborts or changes the          *)
(* resolution of another row: the callback never ends on an exception, no    *)
(* resolution is cancelled, a resolution that is done keeps its result, and  *)
(* the callback ends, every resolution done, with as many mappings as rows   *)
(* resolved on both sides                                                    *)
C15_FailureDoesNotAbortOthers ==
    /\ [](/\ cbPc # "raised"
          /\ \A r \in DOMAIN res :
                /\ res[r].pc \notin {"raised", "cancelled"}
                /\ \A side \in Sides : res[r][side].pc \in {"wait", "request", "done"}
          /\ cbPc = "resolved" =>
                /\ \A r \in DOMAIN res : \A side \in Sides : res[r][side].pc = "done"
                /\ Len(user_maps) = Cardinality({r \in DOMAIN rows : RowResolved(r)}))
    /\ [][\A r \in DOMAIN res : \A side \in Sides :
            res[r][side].pc = "done" => res'[r][side] = res[r][side]]_vars

\* the first row failed to resolve, the second row is in the mapping set
C15_Witness ==
    /\ cbPc = "resolved"
    /\ Len(rows) = 2
    /\ res[1].old.out.kind = "APIError"
    /\ RowResolved(2)
    /\ Len(user_maps) = 1

----------------------------------------------------------------------------
(* C16: resolve_user(identifier) returns the sole user when the search       *)
(* yields exactly one match, whatever that user is; when the search yields   *)
(* several it returns the first match whose accountId or emailAddress equals *)
(* the identifier; it fails with an error when the search yields no match,   *)
(* or several of which none is an exact match                                *)
C16_ResolveUserContract ==
    (lookup.pc = "done" /\ lookup.answer.kind = "ok") =>
        LET users == lookup.answer.users
            id == lookup.identifier
            exact == {i \in DOMAIN users : users[i].accountId = id \/ users[i].emailAddress = id}
        IN  /\ Len(users) = 1 => lookup.out = [kind |-> "User", user |-> users[1]]
            /\ (Len(users) > 1 /\ exact # {}) =>
                    /\ lookup.out.kind = "User"
                    /\ \E i \in exact :
                        /\ lookup.out.user = users[i]
                        /\ \A j \in exact : i <= j
            /\ (Len(users) = 0 \/ (Len(users) > 1 /\ exact = {})) =>
                    lookup.out.kind = "APIError"

\* three matches, the first is not exact, the second and third are: the
\* second was returned
C16_Witness ==
    /\ lookup.pc = "done"
    /\ lookup.answer.kind = "ok"
    /\ Len(lookup.answer.users) = 3
    /\ lookup.identifier = "a@x"
    /\ lookup.answer.users[1].accountId = "acc3"
    /\ lookup.answer.users[2].accountId = "acc1"
    /\ lookup.answer.users[3].accountId = "acc2"
    /\ lookup.out.kind = "User"
    /\ lookup.out.user.accountId = "acc1"

----------------------------------------------------------------------------
(* C17: a paginated traversal over k pages, of which the first k-1 carry a   *)
(* next pointer and the last carries none, returns all items in page order   *)
(* and issues exactly k-1 follow-up requests, each one only after the        *)
(* response to the previous request was received; an empty first page        *)
(* without next pointer gives the empty sequence and no follow-up request    *)
IsChain(pages) ==
    /\ Len(pages) >= 1
    /\ \A i \in 1..(Len(pages) - 1) : pages[i].next = Token(i + 1)
    /\ pages[Len(pages)].next.kind \in {"absent", "empty"}

RECURSIVE AllItems(_, _)
AllItems(pages, i) ==
    IF i > Len(pages) THEN <<>> ELSE pages[i].items \o AllItems(pages, i + 1)

----------------------------------------------------------------------------
(* C18: a paginated traversal ends even when the server sends the same next  *)
(* pointer with every page: having followed a pointer and found it again on  *)
(* the page it led to, the traversal does not follow it once more            *)
C18_EchoedPointerNotFollowedAgain ==
    \A m, n \in DOMAIN pager.followed : m # n => pager.followed[m] # pager.followed[n]

\* the server sends the pointer to its only page with that page: the
\* traversal has received the page three times and asks for it again
C18_Witness ==
    /\ Len(pager.pages) = 1
    /\ pager.pages[1].next = Token(1)
    /\ pager.pc = "request"
    /\ pager.recv = 3
    /\ pager.followed = <<Token(1), Token(1), Token(1)>>
    /\ Len(pager.results) = 3 * Len(pager.pages[1].items)

----------------------------------------------------------------------------
(* C19: when one single-resource mutation (a filter owner change, a space    *)
(* rename, a permission add or remove) fails, only that resource's operation *)
(* is aborted: no sibling mutation of the pair is cancelled and main() goes  *)
(* on, so that the remaining pairs are processed                             *)
C19_FailedMutationAbortsOnlyItself ==
    (command \in {"filters", "spaces"} /\ \E k \in DOMAIN kids : Raised(kids[k])) =>
        /\ mainPc # "raised"
        /\ \A k \in DOMAIN kids : kids[k].pc # "cancelled"

\* the owner change of the first filter of the first pair failed: its
\* sibling was cancelled and the second pair was never begun
C19_Witness ==
    /\ command = "filters"
    /\ mainPc = "raised"
    /\ Len(maps) = 2
    /\ pairIdx = 1
    /\ Len(kids) = 2
    /\ kids[1].pc = "raised"
    /\ kids[2].pc = "cancelled"

----------------------------------------------------------------------------
(* C20: every run of a remap command that completes discovery ends by        *)
(* emitting the final summary line, even when a mutation or a poll failed:   *)
(* main() ends on an exception, without the summary, only when discovery     *)
(* itself failed                                                             *)
C20_SummaryAfterDiscovery ==
    mainPc = "raised" => \E i \in DOMAIN disc : Raised(disc[i])

\* remap issues: discovery completed and matched issues, a status poll
\* failed, and main() ended without the summary
C20_Witness ==
    /\ command = "issues"
    /\ mainPc = "raised"
    /\ total > 0
    /\ \A i \in DOMAIN disc : disc[i].pc = "done"
    /\ \E p \in DOMAIN polls : Raised(polls[p])

----------------------------------------------------------------------------
(* C21: the per-pair changed accumulator of remap issues is zero when the    *)
(* tracking of a pair starts, and the reassigned total changes only at the   *)
(* end of the tracking of a pair, by that pair's accumulator: the total is   *)
(* the sum of the pairs' own counts and no count of a pair goes to another   *)
C21_ChangedAccumulatedPerPair ==
    /\ []((mainPc = "poll0" /\ \A p \in DOMAIN polls : polls[p].pc \in {"wait", "request"}) =>
            user_changed = 0)
    /\ [][(mainPc # "poll0" /\ mainPc' = "poll0") => user_changed' = 0]_vars
    /\ [][changed' # changed => mainPc = "tracked"]_vars
    /\ [][(mainPc = "tracked" /\ mainPc' # "tracked") =>
            changed' = changed + user_changed]_vars
    /\ [][user_changed' # user_changed => mainPc' \in {"poll0", "pollN"}]_vars

\* the tracking of the second pair starts at zero after a first pair that
\* counted changes
C21_Witness ==
    /\ command = "issues"
    /\ pairIdx = 2
    /\ mainPc = "poll0"
    /\ Len(polls) > 0
    /\ changed > 0
    /\ user_changed = 0

----------------------------------------------------------------------------
(* C22: in apply mode of remap filters, when every request succeeds, exactly *)
(* one set_filter_owner(filter, new.accountId) call is issued per discovered *)
(* filter of each pair, always with that pair's new accountId, and the final *)
(* reassigned count equals the matched count                                 *)
OwnerCall(fid, acct) == [op |-> "set_filter_owner", space |-> 0, id |-> fid, acct |-> acct]

Discovered == {<<i, k>> \in (DOMAIN disc) \X (1..MaxFilters) : k \in DOMAIN disc[i].result}

C22_OneOwnerChangePerFilter ==
    (command = "filters" /\ ~dry_run /\ mainPc = "done") =>
        /\ DOMAIN calls = {OwnerCall(disc[d[1]].result[d[2]], user_maps[d[1]].new) : d \in Discovered}
        /\ \A call \in DOMAIN calls : calls[call] = 1
        /\ Cardinality(DOMAIN calls) = Cardinality(Discovered)
        /\ total = Cardinality(Discovered)
        /\ changed = total

\* two pairs of two filters each were reassigned
C22_Witness ==
    /\ command = "filters"
    /\ ~dry_run
    /\ mainPc = "done"
    /\ Len(maps) = 2
    /\ total = 4
    /\ changed = 4
    /\ Cardinality(DOMAIN calls) = 4

----------------------------------------------------------------------------
(* C23: the gate capacity of every client the tool creates is within 1..20,  *)
(* and 10 when not configured, also when the capacity is given with the      *)
(* --concurrency option of remap: a value out of range is rejected and never *)
(* becomes the capacity                                                      *)
C23_CapacityWithinRange ==
    conf.pc = "client" =>
        /\ capacity >= 1 /\ capacity <= 20
        /\ (conf.env = NotGiven /\ conf.option = NotGiven) => capacity = 10

\* --concurrency 21 became the capacity of the client
C23_Witness ==
    /\ conf.pc = "client"
    /\ conf.option = 21
    /\ capacity = 21
    /\ sem = 21

----------------------------------------------------------------------------
(* C24: at every moment while a matched space permission is reassigned,      *)
(* under any interleaving and any failure of a request, the old user or the  *)
(* new user holds the permission on the space: the request that removes the  *)
(* old user's permission is on its way or answered only when the server has  *)
(* answered the addition with success or with "already exists"               *)
NewHolds(k) == kids[k].got \in {"ok", "conflict409", "conflict400"}

OldMayBeGone(k) ==
    \/ kids[k].phase = "remove" /\ kids[k].pc = "request"
    \/ kids[k].rm # "none"

C24_OldOrNewHoldsPermission ==
    \A k \in DOMAIN kids :
        kids[k].kind = "perm" => (~OldMayBeGone(k) \/ NewHolds(k))

\* a permission was added for the new user and then removed from the old
\* one, while the addition of another permission of the pair failed and its
\* removal was never sent
C24_Witness ==
    \E k, j \in DOMAIN kids :
        /\ kids[k].kind = "perm" /\ kids[j].kind = "perm"
        /\ kids[k].got = "ok" /\ kids[k].rm = "returned" /\ kids[k].pc = "done"
        /\ kids[j].got = "httperror" /\ kids[j].rm = "none" /\ kids[j].pc = "done"

----------------------------------------------------------------------------
(* C25: in remap spaces, when the addition of a matched permission is        *)
(* answered with an already-exists conflict, the reassignment of the         *)
(* permission goes on as a success: the removal of the old user's permission *)
(* is called and the permission is counted as reassigned                     *)
C25_ConflictGoesOnToRemoval ==
    \A k \in DOMAIN kids :
        (kids[k].kind = "perm" /\ kids[k].got \in {"conflict409", "conflict400"}) =>
            /\ kids[k].phase = "remove"
            /\ RemoveCall(kids[k], permObjs) \in DOMAIN calls
            /\ changed > 0

\* the addition met a conflict: the reassignment of the permission ended
\* with a warning, nothing was removed and nothing counted
C25_Witness ==
    /\ command = "spaces"
    /\ mainPc = "mutate"
    /\ changed = 0
    /\ \E k \in DOMAIN kids :
        /\ kids[k].kind = "perm"
        /\ kids[k].got = "conflict400"
        /\ kids[k].pc = "done"
        /\ kids[k].rm = "none"
        /\ RemoveCall(kids[k], permObjs) \notin DOMAIN calls

----------------------------------------------------------------------------
(* C26: during the polling of a pair the progress reported is the sum of     *)
(* progressPercent over all tasks of the pair, every terminal task           *)
(* contributing exactly 100; it never exceeds numTasks * 100 and equals      *)
(* numTasks * 100 when the pending set has become empty                      *)
C26_ProgressIsSumOverTasks ==
    mainPc \in {"poll0", "pollN", "while", "tracked"} =>
        /\ progress.total = Len(tasks) * 100
        /\ progress.completed = SumSeq([t \in 1..Len(tasks) |-> tasks[t].progressPercent])
        /\ \A t \in DOMAIN tasks :
                tasks[t].status \in {"COMPLETE", "FAILED", "CANCEL_REQUESTED", "CANCELLED", "DEAD"}
                    => tasks[t].progressPercent = 100
        /\ progress.completed <= Len(tasks) * 100
        /\ (mainPc = "tracked" \/ (mainPc = "while" /\ pending_tasks = <<>>)) =>
                progress.completed = Len(tasks) * 100

\* a round in which one task is terminal though the server reported less
\* than 100 for it, and the other is still running: 150 of 200
C26_Witness ==
    /\ mainPc = "pollN"
    /\ Len(tasks) = 2
    /\ tasks[1].status = "FAILED"
    /\ tasks[2].status = "RUNNING"
    /\ progress = [total |-> 200, completed |-> 150]

----------------------------------------------------------------------------
----------------------------------------------------------------------------
(* C28: in each remap command no mutation request is issued until every      *)
(* discovery request of every pair has completed: whenever a mutation has    *)
(* been called, is running or is being tracked, the discovery of every old   *)
(* user (every field, every space) is done and none of it is still running   *)
MutationBegun ==
    \/ kids # <<>>
    \/ \E f \in Fields : bulkState[f] # "idle"
    \/ task_ids # <<>>
    \/ polls # <<>>
    \/ changed > 0
    \/ \E call \in DOMAIN calls : call.op \in MutationOps

DiscoveryCount ==
    CASE command = "filters" -> Len(user_maps)
      [] command = "issues" -> 2 * Len(user_maps)
      [] OTHER -> Len(all_spaces)

C28_NoMutationBeforeDiscoveryDone ==
    MutationBegun =>
        /\ mainPc \notin {"start", "admin", "list", "discover"}
        /\ Len(disc) = DiscoveryCount
        /\ \A i \in DOMAIN disc : disc[i].pc = "done"

\* remap issues: the bulk updates of the first pair run, the four searches
\* of the two pairs are done
C28_Witness ==
    /\ command = "issues"
    /\ mainPc = "bulk"
    /\ pairIdx = 1
    /\ Len(user_maps) = 2
    /\ Len(disc) = 4
    /\ \A i \in DOMAIN disc : disc[i].pc = "done"
    /\ \E f \in Fields : bulkState[f] = "running"

----------------------------------------------------------------------------
(* C29: search_issue_keys_for_user_field passes the token the server         *)
(* returned back unchanged in the next request, and requests no further page *)
(* after the first response whose nextPageToken is absent, null or empty: a  *)
(* further request is made only for the token of the page received last      *)
LastPage ==
    IF Len(pager.followed) <= 1 THEN 1 ELSE pager.followed[Len(pager.followed) - 1].page

C29_IssueSearchStopsWithoutToken ==
    (pager.style = "issues" /\ pager.recv > 0 /\ pager.pc \in {"wait", "request"}) =>
        /\ pager.pages[LastPage].next.kind = "token"
        /\ pager.want = pager.pages[LastPage].next

\* the only page carried "nextPageToken": null, and the search asks for a
\* further page, with the token "None"
C29_Witness ==
    /\ pager.style = "issues"
    /\ Len(pager.pages) = 1
    /\ pager.pages[1].next.kind = "null"
    /\ pager.pc = "request"
    /\ pager.recv = 1
    /\ pager.sent = 2
    /\ pager.want = Token(0)

----------------------------------------------------------------------------
(* C30: a task is finished iff its status is COMPLETE, FAILED,               *)
(* CANCEL_REQUESTED, CANCELLED or DEAD: a poll that observes one of these,   *)
(* CANCEL_REQUESTED included, counts the task's processed issues, sets its   *)
(* progress to 100 and leaves it out of the pending set; a poll that         *)
(* observes ENQUEUED or RUNNING counts nothing and leaves the pending set    *)
(* as it is, the task still in it during the rounds                          *)
IsPending(t, pending) == \E j \in DOMAIN pending : pending[j] = t

C30_FinishedStatuses ==
    [][\A p \in (DOMAIN polls) \cap (DOMAIN polls') :
        (polls[p].pc = "request" /\ polls'[p].pc = "done") =>
            LET t == polls[p].task
                task == tasks'[t]
            IN  /\ task.status \in {"COMPLETE", "FAILED", "CANCEL_REQUESTED", "CANCELLED", "DEAD"} =>
                    /\ user_changed' = user_changed + task.processed
                    /\ task.progressPercent = 100
                    /\ ~IsPending(t, pending_tasks')
                /\ task.status \in {"ENQUEUED", "RUNNING"} =>
                    /\ user_changed' = user_changed
                    /\ task.progressPercent < 100
                    /\ pending_tasks' = pending_tasks
                    /\ mainPc = "pollN" => IsPending(t, pending_tasks')
                /\ task.status \in {"ENQUEUED", "RUNNING", "COMPLETE", "FAILED",
                                    "CANCEL_REQUESTED", "CANCELLED", "DEAD"}]_vars

\* in a round one task was observed as CANCEL_REQUESTED: it stands at 100
\* and is no longer pending, while the running task still is
C30_Witness ==
    /\ mainPc = "pollN"
    /\ Len(tasks) = 2
    /\ tasks[1].status = "CANCEL_REQUESTED"
    /\ tasks[1].progressPercent = 100
    /\ tasks[2].status = "RUNNING"
    /\ pending_tasks = <<2>>
    /\ \A p \in DOMAIN polls : polls[p].pc = "done"
    /\ Len(polls) = 2

----------------------------------------------------------------------------
(* C31: a caller entering the gate with stagger order k has waited k times   *)
(* its delay unit before it attempts to acquire a permit, and holds no       *)
(* permit while it waits; a batch chunk of index i waits i * 0.5 s, a task   *)
(* poll of index i waits i * 0.1 s, every other request 0 s                  *)

\* the wait named for a caller, in tenths of a second
StaggerWait(caller) ==
    CASE caller.site = "send_batch" -> caller.index * 5
      [] caller.site = "get_task_status" -> caller.index
      [] OTHER -> 0

PermitsHeld == capacity - sem

C31_StaggerBeforeAcquire ==
    /\ \A c \in Callers :
        stagger.callers[c].pc \in {"acquire", "request", "done"} =>
            stagger.callers[c].woke >= stagger.callers[c].entered + StaggerWait(stagger.callers[c])
    /\ PermitsHeld = Cardinality({c \in Callers : stagger.callers[c].pc = "request"})

\* a second chunk (index 1) holds a permit half a second after it entered, while
\* a poll of index 1 is still in its wait
C31_Witness ==
    \E c, d \in Callers :
        /\ stagger.callers[c].site = "send_batch"
        /\ stagger.callers[c].index = 1
        /\ stagger.callers[c].pc = "request"
        /\ stagger.callers[d].site = "get_task_status"
        /\ stagger.callers[d].index = 1
        /\ stagger.callers[d].pc = "sleep"
----------------------------------------------------------------------------
(* C32: in every mapping of the mapping set the remap callback produces,     *)
(* the old user and the new user have different accountIds                   *)

C32_OldAndNewDiffer ==
    cbPc = "resolved" => \A i \in DOMAIN user_maps : user_maps[i].old # user_maps[i].new

\* the row (a@x, acc3): the search for the address a@x was answered with the
\* one user acc3, whose address is hidden, and the row became (acc3, acc3)
C32_Witness ==
    /\ cbPc = "resolved"
    /\ rows = <<[old |-> "a@x", new |-> "acc3"]>>
    /\ user_maps = <<[old |-> "acc3", new |-> "acc3"]>>
----------------------------------------------------------------------------
(* C33: in apply mode of remap spaces, rename_space is issued for a matched  *)
(* space of a pair iff the space is of type "personal", exactly once per     *)
(* (pair, space), and only after every permission reassignment of that       *)
(* space for that pair has finished                                          *)

\* how often rename_space was called for a space in the name of a new user
RenameCount(sid, acct) ==
    LET call == [op |-> "rename_space", space |-> sid, id |-> 0, acct |-> acct]
    IN  IF call \in DOMAIN calls THEN calls[call] ELSE 0

C33_RenamePersonalOnceAfterPerms ==
    /\ \A i \in DOMAIN maps : \A s \in DOMAIN maps[i].spaces :
        LET sp == maps[i].spaces[s]
            n == RenameCount(sp.id, maps[i].new)
        IN  /\ n <= 1
            /\ n = 1 => sp.type = "personal" /\ ~dry_run /\ i <= pairIdx
            /\ (mainPc \in {"summary", "done"} /\ ~dry_run /\ sp.type = "personal") => n = 1
    /\ \A call \in DOMAIN calls :
        call.op = "rename_space" =>
            \E i \in DOMAIN maps : \E s \in DOMAIN maps[i].spaces :
                maps[i].new = call.acct /\ maps[i].spaces[s].id = call.space
    /\ \A k \in DOMAIN kids :
        (kids[k].kind = "space" /\ kids[k].phase = "rename") =>
            \A j \in DOMAIN kids :
                (kids[j].kind = "perm" /\ kids[j].space = kids[k].space) => kids[j].pc = "done"

\* both pairs hold a permission on the personal space and the first pair one
\* on a global space: the personal space was renamed once for each pair, the
\* global space never
C33_Witness ==
    /\ command = "spaces" /\ ~dry_run /\ mainPc = "summary"
    /\ Len(maps) = 2
    /\ Len(maps[1].spaces) = 2
    /\ maps[1].spaces[1].type = "personal" /\ maps[1].spaces[2].type = "global"
    /\ maps[2].spaces[1].type = "personal"
    /\ RenameCount(maps[1].spaces[1].id, maps[1].new) = 1
    /\ RenameCount(maps[2].spaces[1].id, maps[2].new) = 1
    /\ RenameCount(maps[1].spaces[2].id, maps[1].new) = 0
----------------------------------------------------------------------------
(* C34: no logical operation attempts to acquire a permit while it holds     *)
(* one: the permits out of the gate are exactly those of the requests in     *)
(* flight, one each, so an operation that waits for a permit (a traversal    *)
(* between two pages included) holds none; hence, also with capacity 1, a    *)
(* workflow never comes to a state where it has not ended and no step can    *)
(* be taken                                                                  *)

ChunksInFlight ==
    Cardinality({fc \in Fields \X (1..MaxTasks) :
                    fc[2] \in ChunkIds(fc[1]) /\ chunkPc[fc[1]][fc[2]] = "request"})

RequestsInFlight == Holding(disc) + Holding(kids) + Holding(polls) + ChunksInFlight

C34_NoNestedAcquireNoDeadlock ==
    /\ capacity - sem = RequestsInFlight
    /\ sem >= 0
    /\ mainPc \notin {"done", "raised"} => ENABLED RemapNext

\* capacity 1, the mutation phase is reached: one mutation holds the permit
\* while another waits for it
C34_Witness ==
    /\ capacity = 1
    /\ sem = 0
    /\ mainPc = "mutate"
    /\ \E k, j \in DOMAIN kids : kids[k].pc = "request" /\ kids[j].pc = "wait"
----------------------------------------------------------------------------
(* C35: every element of the list bulk_update_user_field returns is the      *)
(* non-empty taskId the server gave for an accepted chunk; an accepted chunk *)
(* answered without a taskId contributes nothing, so no empty id is          *)
(* returned and then polled                                                  *)

\* the task ids the server gave, in chunk order
RECURSIVE GivenTaskIds(_)
GivenTaskIds(responses) ==
    IF responses = <<>> THEN <<>>
    ELSE (IF Head(responses).kind = "task" THEN <<Head(responses).taskId>> ELSE <<>>)
         \o GivenTaskIds(Tail(responses))

C35_OnlyServerTaskIds ==
    /\ \A f \in Fields :
        bulkState[f] = "returned" =>
            /\ bulkResult[f] = GivenTaskIds(chunkResp[f])
            /\ \A e \in DOMAIN bulkResult[f] : bulkResult[f][e] # ""
    /\ \A t \in DOMAIN task_ids : task_ids[t] # ""

\* the one chunk of the assigned keys was accepted with a body that has no
\* taskId: the empty id was returned and the status of task "" is requested
C35_Witness ==
    /\ mainPc = "poll0"
    /\ task_ids = <<"">>
    /\ polls[1].pc = "request"
    /\ polls[1].task = 1
----------------------------------------------------------------------------
(* C36: when a remap command (filters, issues, spaces) completes, its        *)
(* reassigned count does not exceed its matched count, the issues a task     *)
(* reports as processed being among the keys of its chunk                    *)

\* A chunk has at least one key and a task reports at most MaxProcessed = 1
\* processed issue, so the proviso holds in every behaviour.
C36_ChangedAtMostTotal ==
    mainPc \in {"summary", "done"} => changed <= total

\* remap issues of one pair with one matched issue: its task was terminal
\* with that issue processed at the initial poll and again at the poll of the
\* first round, and the summary reports 1 matched, 2 reassigned
C36_Witness ==
    /\ command = "issues" /\ ~dry_run
    /\ mainPc = "summary"
    /\ Len(maps) = 1
    /\ total = 1
    /\ changed = 2

----------------------------------------------------------------------------
(* C37: a dry run of remap spaces sends only read (GET) requests to          *)
(* Confluence: no POST, PUT or DELETE request at any point of the run        *)

C37_DryRunSpacesOnlyReads ==
    (command = "spaces" /\ dry_run) =>
        \A call \in DOMAIN calls : HttpMethod(call.op) = "GET"

\* a dry run: the POST of acquire_admin is in flight
C37_Witness ==
    /\ command = "spaces" /\ dry_run
    /\ mainPc = "admin"
    /\ disc[1].pc = "request"
    /\ \E call \in DOMAIN calls : call.op = "acquire_admin" /\ HttpMethod(call.op) = "POST"
----------------------------------------------------------------------------
(* C38: the reassigned count of remap spaces is incremented for a            *)
(* permission only when both the add for the new user and the removal of     *)
(* the old user's permission succeeded; a permission whose removal failed    *)
(* is not counted                                                            *)

C38_CountedOnlyWhenRemoved ==
    [][(command = "spaces" /\ changed' # changed) =>
            /\ changed' = changed + 1
            /\ \E k \in DOMAIN kids :
                /\ kids[k].kind = "perm"
                /\ kids[k].add = "returned"
                /\ kids[k].rm = "none"
                /\ kids'[k].rm = "returned"]_vars

\* the only permission of the first pair: it was added, its removal was
\* answered with an error status, and it is counted as reassigned
C38_Witness ==
    /\ command = "spaces"
    /\ mainPc = "mutate"
    /\ pairIdx = 1
    /\ changed = 1
    /\ Cardinality({k \in DOMAIN kids : kids[k].kind = "perm"}) = 1
    /\ \E k \in DOMAIN kids :
        /\ kids[k].kind = "perm"
        /\ kids[k].add = "returned"
        /\ kids[k].rm = "APIError"
        /\ kids[k].pc = "done"
----------------------------------------------------------------------------
(* C39: reassigning a space permission leaves the discovered permission      *)
(* record unchanged: the record held in the pair's space list keeps its id   *)
(* and its subject identifier, the accountId of the old user                 *)

C39_DiscoveredPermissionUnchanged ==
    \A i \in DOMAIN maps : \A s \in DOMAIN maps[i].spaces :
        \A j \in DOMAIN maps[i].spaces[s].permissions :
            LET perm == permObjs[maps[i].spaces[s].permissions[j]]
            IN  /\ perm.identifier = maps[i].old
                /\ perm.id # 0

\* reassign_perm has made its copy and waits for the permit of the add: the
\* permission in the pair's space list names the new user
C39_Witness ==
    /\ command = "spaces"
    /\ mainPc = "mutate"
    /\ \E k \in DOMAIN kids :
        /\ kids[k].kind = "perm" /\ kids[k].phase = "add" /\ kids[k].pc = "wait"
        /\ \E s \in DOMAIN maps[pairIdx].spaces :
            \E j \in DOMAIN maps[pairIdx].spaces[s].permissions :
                /\ maps[pairIdx].spaces[s].permissions[j] = kids[k].ref
                /\ permObjs[kids[k].ref].identifier = maps[pairIdx].new
                /\ permObjs[kids[k].ref].id # 0
----------------------------------------------------------------------------
(* C40: issue discovery results are attributed to the right pair whatever    *)
(* the completion order of the searches: for a pair the assigned keys are    *)
(* exactly the result of the assignee search for its old user, the reported  *)
(* keys that of its reporter search; assigned keys are submitted only with   *)
(* field "assignee", reported keys only with field "reporter", both with     *)
(* the pair's new accountId                                                  *)

\* every key of the list was found for this user and this field
FoundFor(keys, acct, field) ==
    \A k \in DOMAIN keys : keys[k].owner = acct /\ keys[k].field = field

C40_DiscoveryAttributedToPair ==
    /\ \A j \in DOMAIN maps :
        command = "issues" =>
            /\ FoundFor(maps[j].assigned, maps[j].old, "assignee")
            /\ FoundFor(maps[j].reported, maps[j].old, "reporter")
            /\ \E i \in DOMAIN user_maps :
                /\ user_maps[i] = [old |-> maps[j].old, new |-> maps[j].new]
                /\ maps[j].assigned = disc[2 * i - 1].result
                /\ maps[j].reported = disc[2 * i].result
    /\ \A call \in DOMAIN calls :
        call.op = "bulk_update_user_field" =>
            /\ calls[call] = 1
            /\ \E j \in 1..Len(maps) :
                /\ j <= pairIdx
                /\ call.acct = maps[j].new
                /\ call.keys = IF call.field = "assignee" THEN maps[j].assigned
                               ELSE maps[j].reported
                /\ FoundFor(call.keys, maps[j].old, call.field)
    /\ \A f \in Fields :
        bulkState[f] = "running" =>
            /\ FoundFor(bulkKeys[f], maps[pairIdx].old, f)
            /\ \A c \in ChunkIds(f) : FoundFor(chunkKeys[f][c], maps[pairIdx].old, f)

\* both pairs have assigned and reported keys; the bulk calls of the second
\* pair are running
C40_Witness ==
    /\ command = "issues"
    /\ mainPc = "bulk"
    /\ Len(maps) = 2
    /\ pairIdx = 2
    /\ \A j \in 1..2 : maps[j].assigned # <<>> /\ maps[j].reported # <<>>
    /\ Cardinality(DOMAIN calls) = 4
    /\ \A f \in Fields : bulkState[f] = "running"
====
